---- MODULE Spec2Model ----
(***************************************************************************)
(* FerriLab: the Measure type (src/src/objects.rs), its operator overloads *)
(* (src/src/macros.rs) and the rounding policy (src/src/aprox.rs).         *)
(*                                                                         *)
(* Numbers.  An f64 is modelled in exact arithmetic as a tuple <<n, d>>:   *)
(*   d > 0      the rational n/d in lowest terms,                          *)
(*   <<1, 0>>   +infinity,  <<-1, 0>>  -infinity,  <<0, 0>>  NaN.          *)
(* The result of sqrt on a rational that is not a perfect square is the    *)
(* surd <<n, d, 2>> (the non-negative root of n/d).  A float the model     *)
(* does not track (arithmetic on a surd, a transcendental function away    *)
(* from its exact points, a float outside the numbers the Measure machine  *)
(* tracks) is Out.  Rounding error of the binary format and the sign of   *)
(* zero are not modelled.                                                  *)
(***************************************************************************)
EXTENDS Integers, Sequences, FiniteSets, TLC

VARIABLES pc, call, ret, m

vars == <<pc, call, ret, m>>

-----------------------------------------------------------------------------
(* f64 arithmetic *)

NaN == <<0, 0>>
PInf == <<1, 0>>
NInf == <<-1, 0>>
Zero == <<0, 1>>
One == <<1, 1>>
Half == <<1, 2>>
Out == <<0, 0, 0>>

Abs(i) == IF i < 0 THEN -i ELSE i

Sgn(i) == IF i < 0 THEN -1 ELSE IF i = 0 THEN 0 ELSE 1

RECURSIVE GCD(_, _)
GCD(a, b) == IF b = 0 THEN a ELSE GCD(b, a % b)

Norm(n, d) ==
    IF d = 0 THEN <<Sgn(n), 0>>
    ELSE LET g == GCD(Abs(n), Abs(d))
         IN  <<Sgn(d) * (n \div g), Abs(d) \div g>>

Num(i) == <<i, 1>>

IsNum(x) == Len(x) = 2
IsNaN(x) == x = NaN
IsInfinite(x) == IsNum(x) /\ x[2] = 0 /\ x[1] # 0
IsFinite(x) == IsNum(x) /\ x[2] > 0

FNeg(x) == IF IsNum(x) THEN <<-x[1], x[2]>> ELSE Out

FAbs(x) == IF IsNum(x) THEN <<Abs(x[1]), x[2]>> ELSE Out

FAdd(x, y) ==
    IF ~IsNum(x) \/ ~IsNum(y) THEN Out
    ELSE IF IsNaN(x) \/ IsNaN(y) THEN NaN
    ELSE IF IsInfinite(x) /\ IsInfinite(y) THEN (IF x = y THEN x ELSE NaN)
    ELSE IF IsInfinite(x) THEN x
    ELSE IF IsInfinite(y) THEN y
    ELSE LET g == GCD(x[2], y[2])
         IN  Norm(x[1] * (y[2] \div g) + y[1] * (x[2] \div g), (x[2] \div g) * y[2])

FSub(x, y) == FAdd(x, FNeg(y))

FMul(x, y) ==
    IF ~IsNum(x) \/ ~IsNum(y) THEN Out
    ELSE IF ~IsFinite(x) \/ ~IsFinite(y) \/ x[1] = 0 \/ y[1] = 0
    THEN Norm(x[1] * y[1], x[2] * y[2])
    ELSE LET g == GCD(Abs(x[1]), y[2])
             h == GCD(Abs(y[1]), x[2])
         IN  Norm((x[1] \div g) * (y[1] \div h), (x[2] \div h) * (y[2] \div g))

FDiv(x, y) ==
    IF ~IsNum(x) \/ ~IsNum(y) THEN Out
    ELSE IF ~IsFinite(x) \/ ~IsFinite(y) \/ x[1] = 0 \/ y[1] = 0
    THEN Norm(x[1] * y[2] * (IF y[1] < 0 THEN -1 ELSE 1), x[2] * Abs(y[1]))
    ELSE FMul(x, <<Sgn(y[1]) * y[2], Abs(y[1])>>)

FLt(x, y) ==
    /\ IsNum(x) /\ IsNum(y)
    /\ ~IsNaN(x) /\ ~IsNaN(y)
    /\ IF IsInfinite(x) /\ IsInfinite(y) THEN x[1] < y[1]
       ELSE IF IsInfinite(x) \/ IsInfinite(y) THEN x[1] * y[2] < y[1] * x[2]
       ELSE LET g == GCD(x[2], y[2])
            IN  x[1] * (y[2] \div g) < y[1] * (x[2] \div g)

FLe(x, y) == IsNum(x) /\ ~IsNaN(x) /\ (x = y \/ FLt(x, y))

RECURSIVE IPow(_, _)
IPow(b, e) == IF e = 0 THEN 1 ELSE b * IPow(b, e - 1)

(* 10.0_f64.powi(k) *)
Pow10(k) == IF k >= 0 THEN <<IPow(10, k), 1>> ELSE <<1, IPow(10, -k)>>

(* f64::powi with a finite base *)
FPowi(x, k) ==
    IF ~IsNum(x) THEN Out
    ELSE IF IsNaN(x) THEN (IF k = 0 THEN One ELSE NaN)
    ELSE IF k >= 0 THEN Norm(IPow(x[1], k), IPow(x[2], k))
    ELSE FDiv(One, Norm(IPow(x[1], -k), IPow(x[2], -k)))

FCeil(x) == IF IsFinite(x) THEN <<-((-x[1]) \div x[2]), 1>> ELSE x

FFloor(x) == IF IsFinite(x) THEN <<x[1] \div x[2], 1>> ELSE x

FTrunc(x) == IF IsFinite(x) THEN <<Sgn(x[1]) * (Abs(x[1]) \div x[2]), 1>> ELSE x

(* the integer square root, by bisection below the root of the largest integer *)
RECURSIVE ISqrtIn(_, _, _)
ISqrtIn(n, lo, hi) ==
    IF lo = hi THEN lo
    ELSE LET mid == (lo + hi + 1) \div 2
         IN  IF mid * mid <= n THEN ISqrtIn(n, mid, hi) ELSE ISqrtIn(n, lo, mid - 1)

ISqrt(n) == ISqrtIn(n, 0, IF n < 46340 THEN n ELSE 46340)

IsSquare(n) == ISqrt(n) * ISqrt(n) = n

(* f64::sqrt *)
FSqrt(x) ==
    IF ~IsNum(x) THEN Out
    ELSE IF IsNaN(x) \/ x = NInf THEN NaN
    ELSE IF x = PInf THEN PInf
    ELSE IF x[1] < 0 THEN NaN
    ELSE IF IsSquare(x[1]) /\ IsSquare(x[2]) THEN <<ISqrt(x[1]), ISqrt(x[2])>>
    ELSE <<x[1], x[2], 2>>

(* the square of a number, surds included *)
Sq(x) == IF Len(x) = 3 /\ x[3] = 2 THEN <<x[1], x[2]>> ELSE FMul(x, x)

(* (a.powi(2) + b.powi(2)).sqrt() *)
Quadrature(a, b) == FSqrt(FAdd(FPowi(a, 2), FPowi(b, 2)))

IsWhole(x) == IsFinite(x) /\ x[2] = 1

(* floor(log10(x)) of a finite x > 0: the j with 10^j <= x < 10^(j+1) *)
RECURSIVE Log10FloorPos(_, _)
Log10FloorPos(n, d) ==
    IF n < d THEN Log10FloorPos(10 * n, d) - 1
    ELSE IF n >= 10 * d THEN Log10FloorPos(n, 10 * d) + 1
    ELSE 0

(* x.log10() == x.log10().floor() *)
Log10IsWhole(x) ==
    IF ~IsNum(x) \/ IsNaN(x) THEN FALSE
    ELSE IF x = PInf \/ x = Zero THEN TRUE
    ELSE IF x[1] < 0 THEN FALSE
    ELSE x = Pow10(Log10FloorPos(x[1], x[2]))

-----------------------------------------------------------------------------
(* src/src/aprox.rs *)

round_half_up(value, decimal_places) ==
    LET multiplier == Pow10(decimal_places)
    IN  FDiv(FFloor(FAdd(FMul(value, multiplier), Half)), multiplier)

round(value, decimal_places) ==
    LET multiplier == Pow10(decimal_places)
    IN  FDiv(FCeil(FSub(FMul(value, multiplier), Half)), multiplier)

trucate(value, decimal_places) ==
    LET multiplier == Pow10(decimal_places)
    IN  FDiv(FTrunc(FMul(value, multiplier)), multiplier)

(* the panic of unreachable!() *)
Panicked == <<>>

RECURSIVE aprox(_, _)

(* aprox without the branch for an infinite value *)
aprox_no_infinite_value(value, error) ==
    IF IsFinite(value) /\ IsFinite(error) /\ error # Zero
    THEN LET fsf0 == -Log10FloorPos(Abs(error[1]), error[2])
             new_error == trucate(error, fsf0)
             first_sigificative_figure ==
                 IF Log10IsWhole(new_error) /\ round(error, fsf0) = Pow10(-fsf0)
                 THEN fsf0 + 1 ELSE fsf0
         IN  <<round(value, first_sigificative_figure),
               round(error, first_sigificative_figure)>>
    ELSE IF error = Zero \/ IsNaN(error) THEN <<value, error>>
    ELSE IF IsNaN(value)
    THEN LET r == aprox(One, error) IN IF r = Panicked THEN Panicked ELSE <<value, r[2]>>
    ELSE IF IsInfinite(error) THEN <<Zero, error>>
    ELSE Panicked

(* aprox that always rounds at the position of the first significant digit *)
aprox_no_shift(value, error) ==
    IF IsFinite(value) /\ IsFinite(error) /\ error # Zero
    THEN LET fsf0 == -Log10FloorPos(Abs(error[1]), error[2])
         IN  <<round(value, fsf0), round(error, fsf0)>>
    ELSE IF error = Zero \/ IsNaN(error) THEN <<value, error>>
    ELSE IF IsNaN(value)
    THEN LET r == aprox(One, error) IN IF r = Panicked THEN Panicked ELSE <<value, r[2]>>
    ELSE IF IsInfinite(error) THEN <<Zero, error>>
    ELSE IF IsInfinite(value)
    THEN LET r == aprox(One, error) IN IF r = Panicked THEN Panicked ELSE <<value, r[2]>>
    ELSE Panicked

aprox(value, error) ==
    IF IsFinite(value) /\ IsFinite(error) /\ error # Zero
    THEN LET fsf0 == -Log10FloorPos(Abs(error[1]), error[2])
             new_error == trucate(error, fsf0)
             first_sigificative_figure ==
                 IF Log10IsWhole(new_error) /\ round(error, fsf0) = Pow10(-fsf0)
                 THEN fsf0 + 1 ELSE fsf0
         IN  <<round(value, first_sigificative_figure),
               round(error, first_sigificative_figure)>>
    ELSE IF error = Zero \/ IsNaN(error) THEN <<value, error>>
    ELSE IF IsNaN(value)
    THEN LET r == aprox(One, error) IN IF r = Panicked THEN Panicked ELSE <<value, r[2]>>
    ELSE IF IsInfinite(error) THEN <<Zero, error>>
    ELSE IF IsInfinite(value)
    THEN LET r == aprox(One, error) IN IF r = Panicked THEN Panicked ELSE <<value, r[2]>>
    ELSE Panicked

-----------------------------------------------------------------------------
(* src/src/objects.rs: struct Measure and Measure::new *)

Measure(value, error) == [value |-> value, error |-> error, style |-> "PM"]

NoMeasure == Measure(<<>>, <<>>)

(* outcomes of a call: a Measure, MyError::InvalidErrorLen, or a panic *)
Ok(value, error) == [kind |-> "Ok", measure |-> Measure(value, error)]
Err == [kind |-> "Err", measure |-> NoMeasure]
Panic == [kind |-> "Panic", measure |-> NoMeasure]

Min(a, b) == IF a < b THEN a ELSE b

(* self.iter(): value.iter().zip(error.iter()) *)
iter(self) == [i \in 1..Min(Len(self.value), Len(self.error)) |->
                  <<self.value[i], self.error[i]>>]

(* vec![x; n] *)
Repeat(x, n) == [i \in 1..n |-> x]

(* aprox of a pair that may hold an untracked float: the rounded error     *)
(* depends on the error alone, the rounded value on both                   *)
AproxPair(value, error) ==
    IF ~IsNum(error) THEN <<Out, Out>>
    ELSE IF ~IsNum(value)
    THEN LET r == aprox(One, error) IN IF r = Panicked THEN Panicked ELSE <<Out, r[2]>>
    ELSE aprox(value, error)

(* aprox applied to every pair of a zip; a panic inside aborts the call *)
AproxAll(pairs) == [i \in 1..Len(pairs) |-> AproxPair(pairs[i][1], pairs[i][2])]

FromTuples(tuples) ==
    IF \E i \in 1..Len(tuples) : tuples[i] = Panicked THEN Panic
    ELSE Ok([i \in 1..Len(tuples) |-> tuples[i][1]],
            [i \in 1..Len(tuples) |-> tuples[i][2]])

(* Measure::new that keeps a single error as it is *)
new_no_broadcast(value, error, aproximate) ==
    IF Len(value) # Len(error) /\ Len(error) # 1 THEN Err
    ELSE IF aproximate
         THEN FromTuples(AproxAll(iter(Measure(value, error))))
         ELSE Ok(value, error)

(* Measure::new that accepts only one error per value *)
new_no_single_error(value, error, aproximate) ==
    IF Len(value) # Len(error) THEN Err
    ELSE IF aproximate
         THEN FromTuples(AproxAll(iter(Measure(value, error))))
         ELSE Ok(value, error)

new(value, error, aproximate) ==
    IF Len(value) # Len(error) /\ Len(error) # 1 THEN Err
    ELSE LET error1 == IF Len(error) = 1 THEN Repeat(error[1], Len(value))
                       ELSE error
         IN  IF aproximate
             THEN FromTuples(AproxAll(iter(Measure(value, error1))))
             ELSE Ok(value, error1)

(* FromIterator<(A, B)> for Measure *)
from_iter(pairs) ==
    Ok([i \in 1..Len(pairs) |-> pairs[i][1]], [i \in 1..Len(pairs) |-> pairs[i][2]])

(* Measure::change_style *)
change_style(self, style) ==
    [value |-> self.value, error |-> self.error, style |-> style]

(* Measure::get: None is the empty tuple *)
get(self, index) ==
    IF index <= Len(self.value) /\ index <= Len(self.error)
    THEN <<self.value[index], self.error[index]>> ELSE <<>>

(* Measure::set, set_value, set_error; index is 1-based here, and an index *)
(* past the end of the vector panics                                       *)
set_swapped(self, index, value, error) ==
    IF index > Len(self.value) THEN Panic
    ELSE IF index > Len(self.error) THEN Panic
    ELSE [kind |-> "Ok",
          measure |-> [self EXCEPT !.value[index] = error, !.error[index] = value]]

set(self, index, value, error) ==
    IF index > Len(self.value) THEN Panic
    ELSE IF index > Len(self.error) THEN Panic
    ELSE [kind |-> "Ok",
          measure |-> [self EXCEPT !.value[index] = value, !.error[index] = error]]

set_value(self, index, value) ==
    IF index > Len(self.value) THEN Panic
    ELSE [kind |-> "Ok", measure |-> [self EXCEPT !.value[index] = value]]

set_error(self, index, error) ==
    IF index > Len(self.error) THEN Panic
    ELSE [kind |-> "Ok", measure |-> [self EXCEPT !.error[index] = error]]

-----------------------------------------------------------------------------
(* f64 functions of the standard library, exact where the result is exact  *)
(* and Out elsewhere                                                       *)

FPowf(x, p) == IF IsWhole(p) THEN FPowi(x, p[1]) ELSE Out

(* x * PI and x / PI *)
FTimesPi(x) ==
    IF ~IsNum(x) THEN Out
    ELSE IF x = Zero \/ ~IsFinite(x) THEN x ELSE Out

FOverPi(x) ==
    IF ~IsNum(x) THEN Out
    ELSE IF x = Zero \/ ~IsFinite(x) THEN x ELSE Out

FSin(x) ==
    IF ~IsNum(x) THEN Out
    ELSE IF ~IsFinite(x) THEN NaN
    ELSE IF x = Zero THEN Zero ELSE Out

FCos(x) ==
    IF ~IsNum(x) THEN Out
    ELSE IF ~IsFinite(x) THEN NaN
    ELSE IF x = Zero THEN One ELSE Out

FTan(x) ==
    IF ~IsNum(x) THEN Out
    ELSE IF ~IsFinite(x) THEN NaN
    ELSE IF x = Zero THEN Zero ELSE Out

FAsin(x) ==
    IF ~IsNum(x) THEN Out
    ELSE IF IsNaN(x) \/ FLt(One, FAbs(x)) THEN NaN
    ELSE IF x = Zero THEN Zero ELSE Out

FAcos(x) ==
    IF ~IsNum(x) THEN Out
    ELSE IF IsNaN(x) \/ FLt(One, FAbs(x)) THEN NaN
    ELSE IF x = One THEN Zero ELSE Out

FAtan(x) ==
    IF ~IsNum(x) THEN Out
    ELSE IF IsNaN(x) THEN NaN
    ELSE IF x = Zero THEN Zero ELSE Out

FAtan2(y, x) ==
    IF ~IsNum(y) \/ ~IsNum(x) THEN Out
    ELSE IF IsNaN(y) \/ IsNaN(x) THEN NaN
    ELSE IF y = Zero /\ FLt(Zero, x) THEN Zero
    ELSE IF IsFinite(y) /\ x = PInf THEN Zero
    ELSE Out

FLn(x) ==
    IF ~IsNum(x) THEN Out
    ELSE IF IsNaN(x) \/ FLt(x, Zero) THEN NaN
    ELSE IF x = Zero THEN NInf
    ELSE IF x = One THEN Zero
    ELSE IF x = PInf THEN PInf ELSE Out

FExp(x) ==
    IF ~IsNum(x) THEN Out
    ELSE IF IsNaN(x) \/ x = PInf THEN x
    ELSE IF x = NInf THEN Zero
    ELSE IF x = Zero THEN One ELSE Out

RECURSIVE FSum(_)
FSum(s) == IF Len(s) = 0 THEN Zero ELSE FAdd(FSum(SubSeq(s, 1, Len(s) - 1)), s[Len(s)])

-----------------------------------------------------------------------------
(* src/src/objects.rs: the transforms of a Measure *)

aprox_measure(self) == FromTuples(AproxAll(iter(self)))

aprox_to(self, decimals) ==
    Ok([i \in 1..Len(self.value) |-> round(self.value[i], decimals)],
       [i \in 1..Len(self.error) |-> round(self.error[i], decimals)])

mean(self) == FDiv(FSum(self.value), Num(Len(self.value)))

standard_deviation(self) ==
    FSqrt(FDiv(FSum([i \in 1..Len(self.value) |->
                        FPowi(FSub(self.value[i], mean(self)), 2)]),
               FSub(Num(Len(self.value)), One)))

standard_error(self) == FDiv(standard_deviation(self), FSqrt(Num(Len(self.value))))

estimation(self) ==
    Ok(Repeat(mean(self), Len(self.value)),
       [i \in 1..Len(self.error) |-> Quadrature(standard_error(self), self.error[i])])

pow(self, other) ==
    Ok([i \in 1..Len(self.value) |-> FPowf(self.value[i], other)],
       [i \in 1..Len(iter(self)) |->
           FAbs(FMul(FMul(other, FPowf(self.value[i], FSub(other, One))),
                     self.error[i]))])

rad(self) ==
    Ok([i \in 1..Len(self.value) |-> FDiv(FTimesPi(self.value[i]), Num(180))],
       [i \in 1..Len(self.error) |-> FDiv(FTimesPi(self.error[i]), Num(180))])

grad(self) ==
    Ok([i \in 1..Len(self.value) |-> FOverPi(FMul(self.value[i], Num(180)))],
       [i \in 1..Len(self.error) |-> FOverPi(FMul(self.error[i], Num(180)))])

sqrt(self) ==
    Ok([i \in 1..Len(self.value) |-> FSqrt(self.value[i])],
       [i \in 1..Len(iter(self)) |->
           FDiv(self.error[i], FMul(Num(2), FSqrt(self.value[i])))])

abs(self) ==
    Ok([i \in 1..Len(self.value) |-> FAbs(self.value[i])], self.error)

sin(self) ==
    LET value == [i \in 1..Len(self.value) |-> FSin(self.value[i])]
    IN  Ok(value,
           [i \in 1..Min(Len(iter(self)), Len(value)) |->
               IF value[i] = One \/ value[i] = Num(-1)
               THEN FAbs(FSub(FSin(FAdd(self.value[i], self.error[i])),
                              FSin(self.value[i])))
               ELSE FAbs(FMul(FCos(self.value[i]), self.error[i]))])

cos(self) ==
    LET value == [i \in 1..Len(self.value) |-> FCos(self.value[i])]
    IN  Ok(value,
           [i \in 1..Min(Len(iter(self)), Len(value)) |->
               IF value[i] = One \/ value[i] = Num(-1)
               THEN FAbs(FSub(FCos(FAdd(self.value[i], self.error[i])),
                              FCos(self.value[i])))
               ELSE FAbs(FMul(FSin(self.value[i]), self.error[i]))])

tan(self) ==
    LET value == [i \in 1..Len(self.value) |-> FTan(self.value[i])]
    IN  Ok(value,
           [i \in 1..Min(Len(self.error), Len(value)) |->
               FMul(FAdd(One, FPowi(value[i], 2)), self.error[i])])

asin(self) ==
    Ok([i \in 1..Len(self.value) |-> FAsin(self.value[i])],
       [i \in 1..Len(iter(self)) |->
           IF self.value[i] # One /\ self.value[i] # Num(-1)
           THEN FDiv(self.error[i], FSqrt(FSub(One, FPowi(self.value[i], 2))))
           ELSE FAbs(FSub(FAsin(FSub(self.value[i], self.error[i])), self.value[i]))])

acos(self) ==
    Ok([i \in 1..Len(self.value) |-> FAcos(self.value[i])],
       [i \in 1..Len(iter(self)) |->
           IF self.value[i] # One /\ self.value[i] # Num(-1)
           THEN FDiv(self.error[i], FSqrt(FSub(One, FPowi(self.value[i], 2))))
           ELSE LET d == IF FLt(Zero, self.value[i])
                         THEN FSub(self.value[i], self.error[i])
                         ELSE FAdd(self.value[i], self.error[i])
                IN  FAbs(FSub(FAcos(d), FAcos(self.value[i])))])

atan(self) ==
    Ok([i \in 1..Len(self.value) |-> FAtan(self.value[i])],
       [i \in 1..Len(iter(self)) |->
           FDiv(self.error[i], FAdd(One, FPowi(self.value[i], 2)))])

atan2(self, other) ==
    Ok([i \in 1..Min(Len(self.value), Len(other.value)) |->
           FAtan2(self.value[i], other.value[i])],
       [i \in 1..Min(Len(iter(self)), Len(iter(other))) |->
           FDiv(FSqrt(FAdd(FPowi(FMul(FPowi(self.value[i], 2),
                                      FPowi(other.error[i], 2)), 2),
                           FPowi(FMul(FPowi(other.value[i], 2),
                                      FPowi(self.error[i], 2)), 2))),
                FAdd(FPowi(self.value[i], 2), FPowi(other.value[i], 2)))])

ln(self) ==
    Ok([i \in 1..Len(self.value) |-> FLn(self.value[i])],
       [i \in 1..Len(iter(self)) |->
           FMul(FAbs(FDiv(One, self.value[i])), self.error[i])])

exp(self) ==
    Ok([i \in 1..Len(self.value) |-> FExp(self.value[i])],
       [i \in 1..Len(iter(self)) |-> FMul(FAbs(self.value[i]), self.error[i])])

delta(self) ==
    from_iter([i \in 1..(IF Len(iter(self)) = 0 THEN 0 ELSE Len(iter(self)) - 1) |->
                  <<FSub(self.value[i + 1], self.value[i]),
                    Quadrature(self.error[i], self.error[i + 1])>>])

-----------------------------------------------------------------------------
(* src/src/macros.rs: impl_op, the operators between two Measures *)

(* self.x[0] evaluated inside a closure that runs once per element of s *)
IndexPanics(s, x) == Len(s) > 0 /\ Len(x) = 0

add(self, other) ==
    IF Len(self.value) = 1
    THEN IF IndexPanics(other.error, self.error) THEN Panic
         ELSE Ok([i \in 1..Len(other.value) |-> FAdd(self.value[1], other.value[i])],
                 [i \in 1..Len(other.error) |->
                     Quadrature(self.error[1], other.error[i])])
    ELSE IF Len(other.value) = 1
    THEN IF IndexPanics(self.error, other.error) THEN Panic
         ELSE Ok([i \in 1..Len(self.value) |-> FAdd(self.value[i], other.value[1])],
                 [i \in 1..Len(self.error) |->
                     Quadrature(self.error[i], other.error[1])])
    ELSE IF Len(self.value) # Len(other.value) THEN Panic
    ELSE Ok([i \in 1..Min(Len(self.value), Len(other.value)) |->
                FAdd(self.value[i], other.value[i])],
            [i \in 1..Min(Len(self.error), Len(other.error)) |->
                Quadrature(self.error[i], other.error[i])])

(* Sub whose broadcast of a single self subtracts in the wrong order *)
sub_swapped(self, other) ==
    IF Len(self.value) = 1
    THEN IF IndexPanics(other.error, self.error) THEN Panic
         ELSE Ok([i \in 1..Len(other.value) |-> FSub(other.value[i], self.value[1])],
                 [i \in 1..Len(other.error) |->
                     Quadrature(self.error[1], other.error[i])])
    ELSE IF Len(other.value) = 1
    THEN IF IndexPanics(self.error, other.error) THEN Panic
         ELSE Ok([i \in 1..Len(self.value) |-> FSub(self.value[i], other.value[1])],
                 [i \in 1..Len(self.error) |->
                     Quadrature(self.error[i], other.error[1])])
    ELSE IF Len(self.value) # Len(other.value) THEN Panic
    ELSE Ok([i \in 1..Min(Len(self.value), Len(other.value)) |->
                FSub(self.value[i], other.value[i])],
            [i \in 1..Min(Len(self.error), Len(other.error)) |->
                Quadrature(self.error[i], other.error[i])])

sub(self, other) ==
    IF Len(self.value) = 1
    THEN IF IndexPanics(other.error, self.error) THEN Panic
         ELSE Ok([i \in 1..Len(other.value) |-> FSub(self.value[1], other.value[i])],
                 [i \in 1..Len(other.error) |->
                     Quadrature(self.error[1], other.error[i])])
    ELSE IF Len(other.value) = 1
    THEN IF IndexPanics(self.error, other.error) THEN Panic
         ELSE Ok([i \in 1..Len(self.value) |-> FSub(self.value[i], other.value[1])],
                 [i \in 1..Len(self.error) |->
                     Quadrature(self.error[i], other.error[1])])
    ELSE IF Len(self.value) # Len(other.value) THEN Panic
    ELSE Ok([i \in 1..Min(Len(self.value), Len(other.value)) |->
                FSub(self.value[i], other.value[i])],
            [i \in 1..Min(Len(self.error), Len(other.error)) |->
                Quadrature(self.error[i], other.error[i])])

(* ((x * ey).powi(2) + (y * ex).powi(2)).sqrt() *)
MulError(x, ex, y, ey) == FSqrt(FAdd(FPowi(FMul(y, ex), 2), FPowi(FMul(x, ey), 2)))

(* Mul without the length assertion: the zip stops at the shorter operand *)
mul_no_assert(self, other) ==
    IF Len(self.value) = 1
    THEN IF IndexPanics(iter(other), self.error) THEN Panic
         ELSE Ok([i \in 1..Len(other.value) |-> FMul(self.value[1], other.value[i])],
                 [i \in 1..Len(iter(other)) |->
                     MulError(self.value[1], self.error[1],
                              other.value[i], other.error[i])])
    ELSE IF Len(other.value) = 1
    THEN IF IndexPanics(iter(self), other.error) THEN Panic
         ELSE Ok([i \in 1..Len(self.value) |-> FMul(self.value[i], other.value[1])],
                 [i \in 1..Len(iter(self)) |->
                     MulError(self.value[i], self.error[i],
                              other.value[1], other.error[1])])
    ELSE Ok([i \in 1..Min(Len(self.value), Len(other.value)) |->
                FMul(self.value[i], other.value[i])],
            [i \in 1..Min(Len(iter(self)), Len(iter(other))) |->
                MulError(self.value[i], self.error[i],
                         other.value[i], other.error[i])])

mul(self, other) ==
    IF Len(self.value) = 1
    THEN IF IndexPanics(iter(other), self.error) THEN Panic
         ELSE Ok([i \in 1..Len(other.value) |-> FMul(self.value[1], other.value[i])],
                 [i \in 1..Len(iter(other)) |->
                     MulError(self.value[1], self.error[1],
                              other.value[i], other.error[i])])
    ELSE IF Len(other.value) = 1
    THEN IF IndexPanics(iter(self), other.error) THEN Panic
         ELSE Ok([i \in 1..Len(self.value) |-> FMul(self.value[i], other.value[1])],
                 [i \in 1..Len(iter(self)) |->
                     MulError(self.value[i], self.error[i],
                              other.value[1], other.error[1])])
    ELSE IF Len(self.value) # Len(other.value) THEN Panic
    ELSE Ok([i \in 1..Min(Len(self.value), Len(other.value)) |->
                FMul(self.value[i], other.value[i])],
            [i \in 1..Min(Len(iter(self)), Len(iter(other))) |->
                MulError(self.value[i], self.error[i],
                         other.value[i], other.error[i])])

(* ((1.0 / y * ex).powi(2) + (x / y.powi(2) * ey.powi(2))).sqrt() *)
DivError(x, ex, y, ey) ==
    FSqrt(FAdd(FPowi(FMul(FDiv(One, y), ex), 2),
               FMul(FDiv(x, FPowi(y, 2)), FPowi(ey, 2))))

div(self, other) ==
    IF Len(self.value) = 1
    THEN IF IndexPanics(iter(other), self.error) THEN Panic
         ELSE Ok([i \in 1..Len(other.value) |-> FDiv(self.value[1], other.value[i])],
                 [i \in 1..Len(iter(other)) |->
                     DivError(self.value[1], self.error[1],
                              other.value[i], other.error[i])])
    ELSE IF Len(other.value) = 1
    THEN IF IndexPanics(iter(self), other.error) THEN Panic
         ELSE Ok([i \in 1..Len(self.value) |-> FDiv(self.value[i], other.value[1])],
                 [i \in 1..Len(iter(self)) |->
                     DivError(self.value[i], self.error[i],
                              other.value[1], other.error[1])])
    ELSE IF Len(self.value) # Len(other.value) THEN Panic
    ELSE Ok([i \in 1..Min(Len(self.value), Len(other.value)) |->
                FDiv(self.value[i], other.value[i])],
            [i \in 1..Min(Len(iter(self)), Len(iter(other))) |->
                DivError(self.value[i], self.error[i],
                         other.value[i], other.error[i])])

-----------------------------------------------------------------------------
(* src/src/macros.rs: impl_op_number, a Measure and a plain number *)

add_num(self, num) ==
    Ok([i \in 1..Len(self.value) |-> FAdd(self.value[i], num)], self.error)

sub_num(self, num) ==
    Ok([i \in 1..Len(self.value) |-> FSub(self.value[i], num)], self.error)

(* Mul by a number that scales the error by the signed number *)
mul_num_signed(self, num) ==
    Ok([i \in 1..Len(self.value) |-> FMul(self.value[i], num)],
       [i \in 1..Len(self.error) |-> FMul(self.error[i], num)])

mul_num(self, num) ==
    Ok([i \in 1..Len(self.value) |-> FMul(self.value[i], num)],
       [i \in 1..Len(self.error) |-> FMul(self.error[i], FAbs(num))])

div_num(self, num) ==
    Ok([i \in 1..Len(self.value) |-> FDiv(self.value[i], num)],
       [i \in 1..Len(self.error) |-> FDiv(self.error[i], FAbs(num))])

num_add(num, measure) ==
    Ok([i \in 1..Len(measure.value) |-> FAdd(measure.value[i], num)], measure.error)

num_sub(num, measure) ==
    Ok([i \in 1..Len(measure.value) |-> FSub(measure.value[i], num)], measure.error)

num_mul(num, measure) ==
    Ok([i \in 1..Len(measure.value) |-> FMul(measure.value[i], num)],
       [i \in 1..Len(measure.error) |-> FMul(measure.error[i], FAbs(num))])

num_div(num, measure) ==
    Ok([i \in 1..Len(measure.value) |-> FDiv(num, measure.value[i])],
       [i \in 1..Len(iter(measure)) |->
           FDiv(FMul(FAbs(num), measure.error[i]), FPowi(measure.value[i], 2))])

-----------------------------------------------------------------------------
(* The rounding policy applied to bounded inputs: one call per behaviour. *)

MaxDecimals == 2
MaxRoundNum == 40
MaxErrNum == 160

RoundDens == {1, 2, 3, 20, 200}
AproxDens == {1, 100, 1000}

RoundValues == {Norm(n, d) : n \in (-MaxRoundNum)..MaxRoundNum, d \in RoundDens}

AproxValues == {<<507, 50>>, <<201, 20>>, <<-7, 3>>, Zero, <<12345, 1000>>,
                NaN, PInf, NInf}

AproxErrors == {Norm(n, d) : n \in (-MaxErrNum)..MaxErrNum, d \in AproxDens}
                   \cup {NaN, PInf, NInf}

RoundCalls == [fn : {"round"}, value : RoundValues, error : {Zero},
               decimal_places : (-MaxDecimals)..MaxDecimals]

AproxCalls == [fn : {"aprox"}, value : AproxValues, error : AproxErrors,
               decimal_places : {0}]

(* measure.aprox().aprox() on the Measure of one pair *)
MeasureAproxCalls == [fn : {"measure_aprox"}, value : AproxValues,
                      error : AproxErrors, decimal_places : {0}]

InitAprox ==
    /\ pc = "call"
    /\ call \in RoundCalls \cup AproxCalls \cup MeasureAproxCalls
    /\ ret = Zero
    /\ m = NoMeasure

CallRound ==
    /\ pc = "call" /\ call.fn = "round"
    /\ ret' = round(call.value, call.decimal_places)
    /\ pc' = "done"
    /\ UNCHANGED <<call, m>>

CallAprox ==
    /\ pc = "call" /\ call.fn = "aprox"
    /\ ret' = aprox(call.value, call.error)
    /\ pc' = "done"
    /\ UNCHANGED <<call, m>>

(* m = Measure::new(value, error).aprox() *)
CallMeasureAprox ==
    /\ pc = "call" /\ call.fn = "measure_aprox"
    /\ m' = aprox_measure(Measure(<<call.value>>, <<call.error>>)).measure
    /\ pc' = "aproxed"
    /\ UNCHANGED <<call, ret>>

(* ret = m.aprox() *)
CallMeasureAproxAgain ==
    /\ pc = "aproxed"
    /\ ret' = aprox_measure(m).measure
    /\ pc' = "done"
    /\ UNCHANGED <<call, m>>

NextAprox == CallRound \/ CallAprox \/ CallMeasureAprox \/ CallMeasureAproxAgain

SpecAprox == InitAprox /\ [][NextAprox]_vars

-----------------------------------------------------------------------------
(* Measure::new and the operators applied to bounded inputs: one call per  *)
(* behaviour.  The operands of an operator are Measures built by           *)
(* Measure::new.                                                           *)

MaxLen == 2

SeqsUpTo(S) == UNION {[1..n -> S] : n \in 0..MaxLen}

NewValues == {<<-2, 1>>, Zero, <<507, 50>>}
NewErrors == {Zero, <<3, 1>>, <<11, 50>>}
SelfValues == {<<-2, 1>>, Zero, <<3, 1>>}
SelfErrors == {Zero, <<3, 1>>}
OtherValues == {<<-1, 1>>, <<2, 1>>}
OtherErrors == {<<1, 1>>, <<4, 1>>}
Numbers == {<<-2, 1>>, Zero, <<1, 2>>}

Built(values, errors) ==
    UNION {{new(v, e, FALSE).measure :
               e \in {x \in SeqsUpTo(errors) : Len(x) \in {1, Len(v)}}} :
           v \in SeqsUpTo(values)}

SelfMeasures == Built(SelfValues, SelfErrors)
OtherMeasures == Built(OtherValues, OtherErrors)

MeasureOps == {"add", "sub", "mul", "div"}
NumberOps == {"add_num", "sub_num", "mul_num", "div_num",
              "num_add", "num_sub", "num_mul", "num_div"}

NewCalls == [fn : {"new"}, value : SeqsUpTo(NewValues), error : SeqsUpTo(NewErrors),
             aproximate : BOOLEAN, self : {NoMeasure}, other : {NoMeasure},
             num : {Zero}]

MeasureCalls == [fn : MeasureOps, value : {<<>>}, error : {<<>>},
                 aproximate : {FALSE}, self : SelfMeasures, other : OtherMeasures,
                 num : {Zero}]

NumberCalls == [fn : NumberOps, value : {<<>>}, error : {<<>>},
                aproximate : {FALSE}, self : SelfMeasures, other : {NoMeasure},
                num : Numbers]

(* a setter applied to a Measure of either style, followed by one call of  *)
(* get; pair is the (value, error) handed to the setter, of which          *)
(* set_value stores the first and set_error the second; indices are        *)
(* 1-based, MaxLen + 1 is past the end of every Measure                    *)
SetterOps == {"set", "set_value", "set_error"}
SetterStyles == {"PM", "Table"}
SetterMeasures == {change_style(self, style) : self \in SelfMeasures, style \in SetterStyles}
SetterPairs == {<<<<7, 2>>, <<1, 4>>>>, <<<<-5, 1>>, <<-1, 1>>>>}

SetterCalls == [fn : SetterOps, value : {<<>>}, error : {<<>>},
                aproximate : {FALSE}, self : SetterMeasures, other : {NoMeasure},
                num : {Zero}, index : 1..(MaxLen + 1), pair : SetterPairs,
                get_index : 1..(MaxLen + 1)]

InitOps ==
    /\ pc = "call"
    /\ call \in NewCalls \cup MeasureCalls \cup NumberCalls \cup SetterCalls
    /\ ret = Err
    /\ m = NoMeasure

Return(fn, result) ==
    /\ pc = "call" /\ call.fn = fn
    /\ ret' = result
    /\ pc' = "done"
    /\ UNCHANGED <<call, m>>

CallNew == Return("new", new(call.value, call.error, call.aproximate))
CallAdd == Return("add", add(call.self, call.other))
CallSub == Return("sub", sub(call.self, call.other))
CallMul == Return("mul", mul(call.self, call.other))
CallDiv == Return("div", div(call.self, call.other))
CallAddNum == Return("add_num", add_num(call.self, call.num))
CallSubNum == Return("sub_num", sub_num(call.self, call.num))
CallMulNum == Return("mul_num", mul_num(call.self, call.num))
CallDivNum == Return("div_num", div_num(call.self, call.num))
CallNumAdd == Return("num_add", num_add(call.num, call.self))
CallNumSub == Return("num_sub", num_sub(call.num, call.self))
CallNumMul == Return("num_mul", num_mul(call.num, call.self))
CallNumDiv == Return("num_div", num_div(call.num, call.self))

(* the setters take &mut self: the Measure of the call becomes m; an index  *)
(* out of range panics before anything is stored                           *)
Mutate(fn, result) ==
    /\ pc = "call" /\ call.fn = fn
    /\ IF result.kind = "Ok"
       THEN m' = result.measure /\ ret' = ret /\ pc' = "set"
       ELSE m' = m /\ ret' = result /\ pc' = "done"
    /\ UNCHANGED call

CallSet == Mutate("set", set(call.self, call.index, call.pair[1], call.pair[2]))
CallSetValue == Mutate("set_value", set_value(call.self, call.index, call.pair[1]))
CallSetError == Mutate("set_error", set_error(call.self, call.index, call.pair[2]))

CallGet ==
    /\ pc = "set"
    /\ ret' = get(m, call.get_index)
    /\ pc' = "done"
    /\ UNCHANGED <<call, m>>

NextOps ==
    \/ CallNew
    \/ CallAdd \/ CallSub \/ CallMul \/ CallDiv
    \/ CallAddNum \/ CallSubNum \/ CallMulNum \/ CallDivNum
    \/ CallNumAdd \/ CallNumSub \/ CallNumMul \/ CallNumDiv
    \/ CallSet \/ CallSetValue \/ CallSetError \/ CallGet

SpecOps == InitOps /\ [][NextOps]_vars

-----------------------------------------------------------------------------
(* A program that owns one Measure m and applies the operations of the     *)
(* type to it in any order.  The other operand of a binary operation is m  *)
(* itself or a Measure built by Measure::new.  The machine tracks the      *)
(* floats -1, 0, 1 and +infinity; any other float stored in m is Out.  A   *)
(* panic ends the program.                                                 *)

TrackedNumbers == {<<-1, 1>>, Zero, One, PInf}

MachValues == {<<-1, 1>>, One}
OperandValues == {One}
MachErrors == {One}
MachNumbers == {<<-1, 1>>, Zero}
PowExponents == {<<-1, 1>>, Zero, <<2, 1>>}

Clamp(measure) ==
    [measure EXCEPT
        !.value = [i \in 1..Len(measure.value) |->
                      IF measure.value[i] \in TrackedNumbers THEN measure.value[i] ELSE Out],
        !.error = [i \in 1..Len(measure.error) |->
                      IF measure.error[i] \in TrackedNumbers THEN measure.error[i] ELSE Out]]

Operands == Built(OperandValues, MachErrors) \cup {m}

Init ==
    /\ pc = "run"
    /\ m = NoMeasure
    /\ call = "none"
    /\ ret = "none"

(* the current Measure is replaced by the outcome of an operation *)
Becomes(result) ==
    /\ pc = "run"
    /\ IF result.kind = "Ok" THEN m' = Clamp(result.measure) /\ pc' = "run"
       ELSE IF result.kind = "Panic" THEN m' = m /\ pc' = "panicked"
       ELSE m' = m /\ pc' = "run"
    /\ UNCHANGED <<call, ret>>

New ==
    \E value \in SeqsUpTo(OperandValues), error \in SeqsUpTo(MachErrors),
       aproximate \in BOOLEAN :
        Becomes(new(value, error, aproximate))

FromIter == \E pairs \in SeqsUpTo(MachValues \X MachErrors) : Becomes(from_iter(pairs))

Set ==
    \E index \in 1..MaxLen, value \in MachValues, error \in MachErrors :
        Becomes(set(m, index, value, error))

SetValue == \E index \in 1..MaxLen, value \in MachValues : Becomes(set_value(m, index, value))

SetError == \E index \in 1..MaxLen, error \in MachErrors : Becomes(set_error(m, index, error))

Aprox == Becomes(aprox_measure(m))
AproxTo == \E decimals \in (-MaxDecimals)..MaxDecimals : Becomes(aprox_to(m, decimals))
Pow == \E other \in PowExponents : Becomes(pow(m, other))
Sqrt == Becomes(sqrt(m))
AbsOf == Becomes(abs(m))
Sin == Becomes(sin(m))
Cos == Becomes(cos(m))
Tan == Becomes(tan(m))
Asin == Becomes(asin(m))
Acos == Becomes(acos(m))
Atan == Becomes(atan(m))
Atan2 == \E other \in Operands : Becomes(atan2(m, other))
Ln == Becomes(ln(m))
Exp == Becomes(exp(m))
Rad == Becomes(rad(m))
Grad == Becomes(grad(m))
Delta == Becomes(delta(m))
Estimation == Becomes(estimation(m))

Add == \E other \in Operands : Becomes(add(m, other)) \/ Becomes(add(other, m))
Sub == \E other \in Operands : Becomes(sub(m, other)) \/ Becomes(sub(other, m))
Mul == \E other \in Operands : Becomes(mul(m, other)) \/ Becomes(mul(other, m))
Div == \E other \in Operands : Becomes(div(m, other)) \/ Becomes(div(other, m))

AddNum == \E num \in MachNumbers : Becomes(add_num(m, num))
SubNum == \E num \in MachNumbers : Becomes(sub_num(m, num))
MulNum == \E num \in MachNumbers : Becomes(mul_num(m, num))
DivNum == \E num \in MachNumbers : Becomes(div_num(m, num))
NumAdd == \E num \in MachNumbers : Becomes(num_add(num, m))
NumSub == \E num \in MachNumbers : Becomes(num_sub(num, m))
NumMul == \E num \in MachNumbers : Becomes(num_mul(num, m))
NumDiv == \E num \in MachNumbers : Becomes(num_div(num, m))

Next ==
    \/ New \/ FromIter \/ Set \/ SetValue \/ SetError
    \/ Aprox \/ AproxTo \/ Pow \/ Sqrt \/ AbsOf
    \/ Sin \/ Cos \/ Tan \/ Asin \/ Acos \/ Atan \/ Atan2
    \/ Ln \/ Exp \/ Rad \/ Grad \/ Delta \/ Estimation
    \/ Add \/ Sub \/ Mul \/ Div
    \/ AddNum \/ SubNum \/ MulNum \/ DivNum
    \/ NumAdd \/ NumSub \/ NumMul \/ NumDiv

Spec == Init /\ [][Next]_vars

-----------------------------------------------------------------------------
(* Properties of the rounding policy *)

IsMultipleOf(x, unit) == IsWhole(FDiv(x, unit))

Within(x, y, bound) == FLe(FAbs(FSub(x, y)), bound)

RoundDone == pc = "done" /\ call.fn = "round"

RoundUnit == Pow10(-call.decimal_places)

RoundTie == IsMultipleOf(FSub(call.value, FMul(Half, RoundUnit)), RoundUnit)

RoundNearest ==
    /\ IsMultipleOf(ret, RoundUnit)
    /\ Within(ret, call.value, FMul(Half, RoundUnit))

(* C8 as stated: round(value, d) is the nearest multiple of 10^-d, and a   *)
(* value exactly halfway between two multiples goes to the larger one.     *)
C8_RoundHalfUp ==
    RoundDone =>
        /\ RoundNearest
        /\ RoundTie => ret = FAdd(call.value, FMul(Half, RoundUnit))

(* C8 amended: round(value, d) is the nearest multiple of 10^-d, and a     *)
(* value exactly halfway between two multiples goes to the smaller (more   *)
(* negative) one: round-half-down.                                         *)
C8_RoundHalfDown ==
    RoundDone =>
        /\ RoundNearest
        /\ RoundTie => ret = FSub(call.value, FMul(Half, RoundUnit))

C8_Witness ==
    /\ RoundDone /\ RoundTie
    /\ call.value = <<3, 2>> /\ call.decimal_places = 0 /\ ret = One

AproxDone == pc = "done" /\ call.fn = "aprox"

AproxPrimary ==
    IsFinite(call.value) /\ IsFinite(call.error) /\ call.error # Zero

(* C9: aprox returns a pair for every class of value and error, and        *)
(* outside the primary path the pair is given by the first rule that       *)
(* matches: error 0 or NaN, value NaN, error infinite, value infinite.     *)
C9_AproxTotal ==
    AproxDone =>
        /\ ret # Panicked
        /\ Len(ret) = 2
        /\ ~AproxPrimary =>
             IF call.error = Zero \/ IsNaN(call.error)
             THEN ret = <<call.value, call.error>>
             ELSE IF IsNaN(call.value)
             THEN ret = <<NaN, aprox(One, call.error)[2]>>
             ELSE IF IsInfinite(call.error)
             THEN ret = <<Zero, call.error>>
             ELSE IsInfinite(call.value)
                  /\ ret = <<call.value, aprox(One, call.error)[2]>>

C9_Witness ==
    /\ AproxDone
    /\ call.value = NInf /\ call.error = <<3, 20>>
    /\ ret = <<NInf, <<3, 20>>>>

AproxPositive ==
    AproxDone /\ IsFinite(call.value) /\ IsFinite(call.error)
              /\ FLt(Zero, call.error)

(* the decimal position of the first significant digit of a finite x > 0 *)
FirstDigitPlace(x) == -Log10FloorPos(x[1], x[2])

(* C10 as stated: value and error are rounded at one decimal position k,   *)
(* where the rounded error is a single digit 1..9 times 10^-k.             *)
C10_OneSignificantDigit ==
    AproxPositive =>
        LET unit == Pow10(-FirstDigitPlace(ret[2]))
        IN  /\ IsMultipleOf(ret[2], unit)
            /\ IsMultipleOf(ret[1], unit)
            /\ Within(ret[2], call.error, FMul(Half, unit))
            /\ Within(ret[1], call.value, FMul(Half, unit))

(* C10 amended: with k the position of the error's first significant       *)
(* digit, value and error are rounded at position k and the rounded error  *)
(* is 2..10 units of 10^-k, unless the error is at most 1.5 units of       *)
(* 10^-k: then both are rounded at position k+1 and the rounded error is   *)
(* 10..15 units of 10^-(k+1).                                              *)
C10_LeadingDigitRule ==
    AproxPositive =>
        LET k == FirstDigitPlace(call.error)
            shifted == FLe(FMul(call.error, Pow10(k)), <<3, 2>>)
            unit == IF shifted THEN Pow10(-(k + 1)) ELSE Pow10(-k)
            digits == FDiv(ret[2], unit)
        IN  /\ IsWhole(digits)
            /\ IF shifted THEN digits[1] \in 10..15 ELSE digits[1] \in 2..10
            /\ IsMultipleOf(ret[1], unit)
            /\ Within(ret[2], call.error, FMul(Half, unit))
            /\ Within(ret[1], call.value, FMul(Half, unit))

C10_Witness ==
    /\ AproxPositive
    /\ call.value = <<507, 50>> /\ call.error = <<3, 20>>
    /\ ret = <<<<507, 50>>, <<3, 20>>>>

AproxTwiceDone == pc = "done" /\ call.fn = "measure_aprox"

(* C11: for a Measure with a finite value and a finite non-zero error,     *)
(* m.aprox().aprox() has the same values and errors as m.aprox().          *)
C11_AproxIdempotent ==
    (AproxTwiceDone /\ AproxPrimary) => ret = m

(* the same for positive errors only *)
C11_AproxIdempotentPositive ==
    (AproxTwiceDone /\ AproxPrimary /\ FLt(Zero, call.error)) => ret = m

-----------------------------------------------------------------------------
(* Properties of Measure::new and of the operators *)

Done(fn) == pc = "done" /\ call.fn = fn

(* C2 as stated: Measure::new fails with InvalidErrorLen exactly when      *)
(* 1 < len(errors) < len(values) or len(errors) > len(values).             *)
C2_ErrIffBetweenOrLonger ==
    Done("new") =>
        /\ ret.kind \in {"Ok", "Err"}
        /\ ret.kind = "Err" <=>
              \/ 1 < Len(call.error) /\ Len(call.error) < Len(call.value)
              \/ Len(call.error) > Len(call.value)

(* C2 amended: Measure::new fails with InvalidErrorLen exactly when        *)
(* len(errors) differs from len(values) and is not 1; for every other pair *)
(* of lengths it returns a Measure.                                        *)
C2_ErrIffNeitherOneNorEqual ==
    Done("new") =>
        /\ ret.kind \in {"Ok", "Err"}
        /\ ret.kind = "Err" <=>
              Len(call.error) # Len(call.value) /\ Len(call.error) # 1

C2_Witness ==
    /\ Done("new")
    /\ Len(call.error) = 0 /\ Len(call.value) = 2
    /\ ret.kind = "Err"

SingleError == Done("new") /\ Len(call.error) = 1

(* C3 as stated: built with a single error and n values, for either value  *)
(* of the flag, the Measure has n errors, each equal to the single error.  *)
C3_BroadcastKeepsScalar ==
    SingleError =>
        /\ ret.kind = "Ok"
        /\ Len(ret.measure.error) = Len(call.value)
        /\ \A i \in 1..Len(ret.measure.error) : ret.measure.error[i] = call.error[1]

(* C3 amended: built with a single error and n values, the Measure has n   *)
(* errors; without the flag each equals the single error, with the flag    *)
(* error i is the error that aprox returns for (values[i], single error).  *)
C3_BroadcastThenAprox ==
    SingleError =>
        /\ ret.kind = "Ok"
        /\ Len(ret.measure.error) = Len(call.value)
        /\ \A i \in 1..Len(ret.measure.error) :
              ret.measure.error[i] =
                  IF call.aproximate THEN aprox(call.value[i], call.error[1])[2]
                  ELSE call.error[1]

C3_Witness ==
    /\ SingleError /\ call.aproximate
    /\ call.value = <<Zero, <<507, 50>>>> /\ call.error = <<<<11, 50>>>>
    /\ ret.measure.error = <<<<1, 5>>, <<1, 5>>>>

DoneMeasureOp == pc = "done" /\ call.fn \in MeasureOps

(* C4: between two Measures, a single self gives a result as long as the   *)
(* other, else a single other gives a result as long as self, else equal   *)
(* lengths give that length, else the operator panics.                     *)
C4_BroadcastLength ==
    DoneMeasureOp =>
        LET a == Len(call.self.value)
            b == Len(call.other.value)
        IN  IF a = 1 THEN ret.kind = "Ok" /\ Len(ret.measure.value) = b
            ELSE IF b = 1 THEN ret.kind = "Ok" /\ Len(ret.measure.value) = a
            ELSE IF a = b THEN ret.kind = "Ok" /\ Len(ret.measure.value) = a
            ELSE ret.kind = "Panic"

C4_Witness ==
    /\ Done("div")
    /\ Len(call.self.value) = 0 /\ Len(call.other.value) = 2
    /\ ret.kind = "Panic"

(* element i of an operand, the only element of a single operand *)
Pick(s, i) == IF Len(s) = 1 THEN s[1] ELSE s[i]

(* C5: element i of a+b and of a-b has the sum, respectively the           *)
(* difference, of the values, and an error whose square is the sum of the  *)
(* squares of the two errors; a single operand gives its only element.     *)
C5_SumDifferenceQuadrature ==
    (pc = "done" /\ call.fn \in {"add", "sub"} /\ ret.kind = "Ok") =>
        LET a == call.self
            b == call.other
            r == ret.measure
        IN  /\ Len(r.error) = Len(r.value)
            /\ \A i \in 1..Len(r.value) :
                  /\ Sq(r.error[i]) = FAdd(Sq(Pick(a.error, i)), Sq(Pick(b.error, i)))
                  /\ r.value[i] =
                        IF call.fn = "add"
                        THEN FAdd(Pick(a.value, i), Pick(b.value, i))
                        ELSE FSub(Pick(a.value, i), Pick(b.value, i))

C5_Witness ==
    /\ Done("sub")
    /\ call.self = Measure(<<<<3, 1>>>>, <<<<3, 1>>>>)
    /\ call.other = Measure(<<<<-1, 1>>, <<2, 1>>>>, <<<<1, 1>>, <<4, 1>>>>)
    /\ ret.measure = Measure(<<<<4, 1>>, <<1, 1>>>>, <<<<10, 1, 2>>, <<5, 1>>>>)

(* C6: with every divisor value non-zero, element i of a/b has an error    *)
(* whose square is (ea/vb)^2 + (va*eb/vb^2)^2.                             *)
C6_QuotientError ==
    (Done("div") /\ ret.kind = "Ok"
        /\ \A i \in 1..Len(call.other.value) : call.other.value[i] # Zero) =>
        LET a == call.self
            b == call.other
            r == ret.measure
        IN  /\ Len(r.error) = Len(r.value)
            /\ \A i \in 1..Len(r.value) :
                  Sq(r.error[i]) =
                      FAdd(Sq(FDiv(Pick(a.error, i), Pick(b.value, i))),
                           Sq(FDiv(FMul(Pick(a.value, i), Pick(b.error, i)),
                                   Sq(Pick(b.value, i)))))

DoneNumberOp == pc = "done" /\ call.fn \in NumberOps

(* C7: with a plain number s on either side, + and - keep the errors of m, *)
(* * gives |s|*error, m/s gives error/|s|, s/m gives |s|*error/value^2,    *)
(* and the result is as long as m.                                         *)
C7_NumberErrors ==
    DoneNumberOp =>
        LET x == call.self
            s == call.num
            r == ret.measure
        IN  /\ ret.kind = "Ok"
            /\ Len(r.value) = Len(x.value)
            /\ Len(r.error) = Len(x.value)
            /\ \A i \in 1..Len(r.error) :
                  r.error[i] =
                      CASE call.fn \in {"add_num", "num_add", "sub_num", "num_sub"} ->
                               x.error[i]
                        [] call.fn \in {"mul_num", "num_mul"} ->
                               FMul(FAbs(s), x.error[i])
                        [] call.fn = "div_num" ->
                               FDiv(x.error[i], FAbs(s))
                        [] call.fn = "num_div" ->
                               FDiv(FMul(FAbs(s), x.error[i]), Sq(x.value[i]))

C7_Witness ==
    /\ Done("num_div")
    /\ call.num = <<-2, 1>>
    /\ call.self = Measure(<<<<3, 1>>>>, <<<<3, 1>>>>)
    /\ ret.measure.error = <<<<2, 3>>>>

(* C27: a number minus a Measure has, at every index, the number minus the *)
(* Measure's value, which is the negation of the Measure minus the number. *)
C27_NumberMinusMeasure ==
    Done("num_sub") =>
        /\ ret.kind = "Ok"
        /\ Len(ret.measure.value) = Len(call.self.value)
        /\ \A i \in 1..Len(call.self.value) :
               /\ ret.measure.value[i] = FSub(call.num, call.self.value[i])
               /\ ret.measure.value[i] =
                      FNeg(sub_num(call.self, call.num).measure.value[i])

(* C26: a setter at an index inside the Measure changes the value, the     *)
(* error or both at that index and nothing else; length and style stay,    *)
(* and get afterwards returns the stored pair, or nothing past the end.    *)
SetterApplied ==
    /\ pc \in {"set", "done"}
    /\ call.fn \in SetterOps
    /\ call.index <= Len(call.self.value)

C26_SettersChangeOneEntry ==
    SetterApplied =>
        /\ Len(m.value) = Len(call.self.value)
        /\ Len(m.error) = Len(call.self.error)
        /\ m.style = call.self.style
        /\ \A j \in 1..Len(call.self.value) :
               m.value[j] = IF j = call.index /\ call.fn \in {"set", "set_value"}
                            THEN call.pair[1] ELSE call.self.value[j]
        /\ \A j \in 1..Len(call.self.error) :
               m.error[j] = IF j = call.index /\ call.fn \in {"set", "set_error"}
                            THEN call.pair[2] ELSE call.self.error[j]
        /\ pc = "done" =>
               ret = IF call.get_index > Len(call.self.value) THEN <<>>
                     ELSE IF call.get_index # call.index
                     THEN <<call.self.value[call.get_index],
                            call.self.error[call.get_index]>>
                     ELSE CASE call.fn = "set" -> call.pair
                            [] call.fn = "set_value" ->
                                   <<call.pair[1], call.self.error[call.index]>>
                            [] call.fn = "set_error" ->
                                   <<call.self.value[call.index], call.pair[2]>>

C26_Witness ==
    /\ pc = "done"
    /\ call.fn = "set"
    /\ call.self = change_style(Measure(<<<<-2, 1>>, <<3, 1>>>>, <<Zero, <<3, 1>>>>), "Table")
    /\ call.index = 2
    /\ call.pair = <<<<7, 2>>, <<1, 4>>>>
    /\ call.get_index = 2
    /\ m = change_style(Measure(<<<<-2, 1>>, <<7, 2>>>>, <<Zero, <<1, 4>>>>), "Table")
    /\ ret = <<<<7, 2>>, <<1, 4>>>>

-----------------------------------------------------------------------------
(* Properties of the Measure machine *)

(* C1: in every Measure reached by constructors, setters, transforms and   *)
(* operators, the value vector and the error vector are equally long.      *)
C1_SameLength == Len(m.value) = Len(m.error)

C1_Witness ==
    /\ pc = "run"
    /\ Len(m.value) = 2 /\ Len(m.error) = 2
    /\ m.value[1] = Zero /\ m.value[2] = Out /\ m.error[1] = Out

-----------------------------------------------------------------------------
(* src/src/fit.rs: invert_matrix *)

(* Option<Vec<Vec<f64>>>, and the panic of unwrap() on a None *)
Some(inverse) == [kind |-> "Some", matrix |-> inverse]
None == [kind |-> "None", matrix |-> <<>>]
UnwrapNone == [kind |-> "Panic", matrix |-> <<>>]

(* the rows of the matrix extended by the rows of the identity *)
augment(matrix) ==
    [i \in 1..Len(matrix) |->
        matrix[i] \o [j \in 1..Len(matrix) |-> IF i = j THEN One ELSE Zero]]

(* (i..n).max_by(|a, b| matrix[a][i].abs().partial_cmp(&matrix[b][i].abs()) *)
(* .unwrap()): the fold keeps the accumulator only when it is Greater; the *)
(* result 0 stands for the panic of unwrap() on an unordered pair.         *)
RECURSIVE max_by(_, _, _, _)
max_by(matrix, i, acc, row) ==
    IF row > Len(matrix) THEN acc
    ELSE IF IsNaN(matrix[acc][i]) \/ IsNaN(matrix[row][i]) THEN 0
    ELSE IF FLt(FAbs(matrix[row][i]), FAbs(matrix[acc][i]))
    THEN max_by(matrix, i, acc, row + 1)
    ELSE max_by(matrix, i, row, row + 1)

(* one pass of the elimination loop that divides by the pivot whatever it is *)
eliminate_unchecked(matrix, augmented, i) ==
    LET n == Len(matrix)
        pivot_row == max_by(matrix, i, i, i + 1)
    IN  IF pivot_row = 0 THEN UnwrapNone
        ELSE LET swapped == [augmented EXCEPT ![i] = augmented[pivot_row],
                                              ![pivot_row] = augmented[i]]
                 pivot_val == swapped[i][i]
                 pivot == [j \in 1..(2 * n) |-> FDiv(swapped[i][j], pivot_val)]
             IN  Some([k \in 1..n |->
                         IF k = i THEN pivot
                         ELSE [j \in 1..(2 * n) |->
                                  IF j >= i
                                  THEN FSub(swapped[k][j], FMul(swapped[k][i], pivot[j]))
                                  ELSE swapped[k][j]]])

(* one pass of `for i in 0..n`: pivot search in the column of the ORIGINAL  *)
(* matrix, swap of the augmented rows, zero test, division of the pivot    *)
(* row, elimination of the column from the other rows (columns i..2n)      *)
eliminate(matrix, augmented, i) ==
    LET n == Len(matrix)
        pivot_row == max_by(matrix, i, i, i + 1)
    IN  IF pivot_row = 0 THEN UnwrapNone
        ELSE LET swapped == [augmented EXCEPT ![i] = augmented[pivot_row],
                                              ![pivot_row] = augmented[i]]
                 pivot_val == swapped[i][i]
                 pivot == [j \in 1..(2 * n) |-> FDiv(swapped[i][j], pivot_val)]
             IN  IF pivot_val = Zero THEN None
                 ELSE Some([k \in 1..n |->
                              IF k = i THEN pivot
                              ELSE [j \in 1..(2 * n) |->
                                       IF j >= i
                                       THEN FSub(swapped[k][j],
                                                 FMul(swapped[k][i], pivot[j]))
                                       ELSE swapped[k][j]]])

is_square(matrix) == \A i \in 1..Len(matrix) : Len(matrix[i]) = Len(matrix)

(* row[n..] of every row *)
extract(augmented) ==
    [k \in 1..Len(augmented) |->
        SubSeq(augmented[k], Len(augmented) + 1, 2 * Len(augmented))]

RECURSIVE gauss_jordan(_, _, _)
gauss_jordan(matrix, augmented, i) ==
    IF i > Len(matrix) THEN Some(augmented)
    ELSE LET r == eliminate(matrix, augmented, i)
         IN  IF r.kind = "Some" THEN gauss_jordan(matrix, r.matrix, i + 1) ELSE r

invert_matrix(matrix) ==
    IF ~is_square(matrix) THEN None
    ELSE LET r == gauss_jordan(matrix, augment(matrix), 1)
         IN  IF r.kind = "Some" THEN Some(extract(r.matrix)) ELSE r

-----------------------------------------------------------------------------
(* invert_matrix applied to bounded matrices, one pass of the elimination  *)
(* loop per step.  m holds the locals of the call: augmented_matrix, the   *)
(* loop variable i and the pivot_row of the last pass (0 before the first).*)

MaxDim == 3

SmallEntries == {<<-1, 1>>, Zero, Half, <<2, 1>>}
BitEntries == {Zero, One}

(* rows of 0 and 1; beyond dimension 3 only the rows with at most two 1 *)
BitRows(n) ==
    {r \in [1..n -> BitEntries] :
        n > 3 => Cardinality({j \in 1..n : r[j] = One}) <= 2}

SquareMatrices ==
    UNION {[1..n -> IF n < 3 THEN [1..n -> SmallEntries] ELSE BitRows(n)] :
              n \in 0..MaxDim}

RaggedMatrices ==
    {<<<<One, Zero>>>>, <<<<One>>, <<Zero>>>>, <<<<One, Zero>>, <<One>>>>,
     <<<<One>>, <<Zero, One>>>>}

InvertCalls == [fn : {"invert_matrix"}, matrix : SquareMatrices \cup RaggedMatrices]

InitInvert ==
    /\ pc = "call"
    /\ call \in InvertCalls
    /\ ret = None
    /\ m = [augmented |-> <<>>, i |-> 0, pivot_row |-> 0]

InvertEnter ==
    /\ pc = "call"
    /\ IF is_square(call.matrix)
       THEN /\ m' = [augmented |-> augment(call.matrix), i |-> 1, pivot_row |-> 0]
            /\ pc' = "eliminate"
            /\ UNCHANGED ret
       ELSE /\ ret' = None
            /\ pc' = "done"
            /\ UNCHANGED m
    /\ UNCHANGED call

InvertColumn ==
    /\ pc = "eliminate" /\ m.i <= Len(call.matrix)
    /\ \E r \in {eliminate(call.matrix, m.augmented, m.i)},
          pivot_row \in {max_by(call.matrix, m.i, m.i, m.i + 1)} :
           IF r.kind = "Some"
           THEN /\ m' = [augmented |-> r.matrix, i |-> m.i + 1,
                         pivot_row |-> pivot_row]
                /\ UNCHANGED <<pc, ret>>
           ELSE /\ ret' = r
                /\ pc' = "done"
                /\ m' = [m EXCEPT !.pivot_row = pivot_row]
    /\ UNCHANGED call

InvertExtract ==
    /\ pc = "eliminate" /\ m.i > Len(call.matrix)
    /\ ret' = Some(extract(m.augmented))
    /\ pc' = "done"
    /\ UNCHANGED <<call, m>>

NextInvert == InvertEnter \/ InvertColumn \/ InvertExtract

SpecInvert == InitInvert /\ [][NextInvert]_vars

-----------------------------------------------------------------------------
(* Properties of invert_matrix *)

(* the matrix without row i and column j *)
Minor(a, i, j) ==
    [r \in 1..(Len(a) - 1) |->
        [c \in 1..(Len(a) - 1) |->
            a[IF r < i THEN r ELSE r + 1][IF c < j THEN c ELSE c + 1]]]

(* the determinant, by expansion along the first row *)
RECURSIVE Det(_)
Det(a) ==
    IF Len(a) = 0 THEN One
    ELSE FSum([j \in 1..Len(a) |->
                  FMul(IF j % 2 = 1 THEN a[1][j] ELSE FNeg(a[1][j]),
                       Det(Minor(a, 1, j)))])

MatMul(a, b) ==
    [i \in 1..Len(a) |->
        [j \in 1..Len(a) |-> FSum([k \in 1..Len(a) |-> FMul(a[i][k], b[k][j])])]]

Identity(n) == [i \in 1..n |-> [j \in 1..n |-> IF i = j THEN One ELSE Zero]]

InvertDone == pc = "done" /\ call.fn = "invert_matrix"

(* C18: invert_matrix returns None only for a matrix that is not square or *)
(* is singular; for every square non-singular matrix it returns an inverse.*)
C18_NoneOnlyIfSingular ==
    (InvertDone /\ ret.kind # "Some") =>
        (~is_square(call.matrix) \/ Det(call.matrix) = Zero)

(* C24: the row swapped into position i by a pass of the elimination is,   *)
(* among the rows i..n-1 of the working matrix as it stands before the     *)
(* pass, one of largest absolute entry in column i.                        *)
C24_PivotOfWorkingMatrix ==
    [][(pc = "eliminate" /\ m.i <= Len(call.matrix) /\ m'.pivot_row # 0)
       => \A row \in m.i..Len(call.matrix) :
              FLe(FAbs(m.augmented[row][m.i]),
                  FAbs(m.augmented[m'.pivot_row][m.i]))]_vars

(* C19: a matrix returned by invert_matrix is the inverse of its input,    *)
(* and for a singular square matrix invert_matrix returns None.            *)
C19_ReturnedIsInverse ==
    InvertDone =>
        /\ ret.kind = "Some" =>
              /\ is_square(call.matrix)
              /\ MatMul(call.matrix, ret.matrix) = Identity(Len(call.matrix))
        /\ (is_square(call.matrix) /\ Det(call.matrix) = Zero) => ret.kind = "None"

C19_Witness ==
    /\ InvertDone
    /\ call.matrix = <<<<Zero, One, One>>, <<One, One, Zero>>, <<One, Zero, Zero>>>>
    /\ ret.kind = "Some"
    /\ ret.matrix # call.matrix

-----------------------------------------------------------------------------
(* src/src/fit.rs: the curve fit *)

(* Option<T>: None is the empty sequence, Some(x) the sequence of x *)
IsSome(option) == Len(option) = 1

(* The closure `model` of a CurveFit is an input of the program.  The model *)
(* draws it from two closures that accept any number of coefficients:      *)
(*   polynomial    |x, c| c[0] + c[1] * x + c[2] * x^2 + ...               *)
(*   proportional  |x, c| (c[0] + c[1] + ...) * x                          *)
model(name, x, coef) ==
    IF name = "polynomial"
    THEN FSum([i \in 1..Len(coef) |-> FMul(coef[i], FPowi(x, i - 1))])
    ELSE FMul(FSum(coef), x)

(* the closure objective_function of curve_fit, as the record of what it   *)
(* captures, and its application to a point: the zip stops at the shortest *)
(* of x, y and yerr                                                        *)
objective_function(self) ==
    [model |-> self.model, x |-> self.x_values, y |-> self.y_values,
     yerr |-> self.yerr]

apply(f, coef) ==
    FSum([i \in 1..Min(Min(Len(f.x), Len(f.y)), Len(f.yerr)) |->
             FPowi(FDiv(FSub(f.y[i], model(f.model, f.x[i], coef)), f.yerr[i]), 2)])

(* generate_initial_simplex without the vertex of the last coordinate *)
generate_initial_simplex_short(initial_point, scale) ==
    [v \in 1..Len(initial_point) |->
        [c \in 1..Len(initial_point) |->
            IF c = v - 1 THEN FAdd(initial_point[c], scale) ELSE initial_point[c]]]

generate_initial_simplex(initial_point, scale) ==
    [v \in 1..(Len(initial_point) + 1) |->
        [c \in 1..Len(initial_point) |->
            IF c = v - 1 THEN FAdd(initial_point[c], scale) ELSE initial_point[c]]]

(* indices.sort_by(|&a, &b| values[a].partial_cmp(&values[b]).unwrap()):   *)
(* a stable sort; with two or more values a NaN among them meets a         *)
(* comparison and unwrap() panics (the empty sequence stands for that)     *)
(* sort_by with the comparison reversed: the largest value first *)
sort_by_descending(values) ==
    IF Len(values) >= 2 /\ \E i \in 1..Len(values) : IsNaN(values[i]) THEN <<>>
    ELSE LET before(j, i) == FLt(values[i], values[j]) \/ (values[j] = values[i] /\ j < i)
             rank(i) == 1 + Cardinality({j \in 1..Len(values) : before(j, i)})
         IN  [k \in 1..Len(values) |-> CHOOSE i \in 1..Len(values) : rank(i) = k]

sort_by(values) ==
    IF Len(values) >= 2 /\ \E i \in 1..Len(values) : IsNaN(values[i]) THEN <<>>
    ELSE LET before(j, i) == FLt(values[j], values[i]) \/ (values[j] = values[i] /\ j < i)
             rank(i) == 1 + Cardinality({j \in 1..Len(values) : before(j, i)})
         IN  [k \in 1..Len(values) |-> CHOOSE i \in 1..Len(values) : rank(i) = k]

(* the outcome of one pass of the loop of nelder_mead *)
(* with the locals of the pass: the branch it took (step), centroid,       *)
(* reflection, reflection_value, and expansion where it was computed       *)
NoLocals ==
    [step |-> "", centroid |-> <<>>, reflection |-> <<>>,
     reflection_value |-> NaN, expansion |-> <<>>]

Pass(simplex, values, max_diff, locals) ==
    [kind |-> "Ok", simplex |-> simplex, values |-> values, max_diff |-> max_diff,
     locals |-> locals]
PassPanic(message) ==
    [kind |-> message, simplex |-> <<>>, values |-> <<>>, max_diff |-> NaN,
     locals |-> NoLocals]

(* the body of `for _ in iter` of nelder_mead: sort, centroid of the n     *)
(* best, reflection, then expansion, contraction or shrink, and max_diff   *)
(* between the vertices that were first and last in the sorted order;      *)
(* with no coefficient indices[n - 1] underflows or is out of range        *)
nelder_mead_pass(f, simplex, values) ==
    LET n == Len(simplex) - 1
        indices == sort_by(values)
    IN  IF indices = <<>> THEN PassPanic("unwrap")
        ELSE IF n = 0 THEN PassPanic("overflow")
        ELSE
        LET best == indices[1]
            worst == indices[n + 1]
            centroid == [c \in 1..n |->
                            FDiv(FSum([k \in 1..n |-> simplex[indices[k]][c]]), Num(n))]
            reflection == [c \in 1..n |->
                              FSub(FMul(Num(2), centroid[c]), simplex[worst][c])]
            reflection_value == apply(f, reflection)
            expansion == [c \in 1..n |->
                             FAdd(centroid[1],
                                  FMul(Num(2), FSub(reflection[c], centroid[c])))]
            expansion_value == apply(f, expansion)
            contraction == [c \in 1..n |->
                               FMul(Half, FAdd(simplex[worst][c], centroid[c]))]
            contraction_value == apply(f, contraction)
            replace(point, value, taken) ==
                <<[simplex EXCEPT ![worst] = point], [values EXCEPT ![worst] = value],
                  taken>>
            shrunk == [v \in 1..(n + 1) |->
                          IF v = best THEN simplex[v]
                          ELSE [c \in 1..n |->
                                   FMul(Half, FAdd(simplex[best][c], simplex[v][c]))]]
            moved ==
                IF FLt(reflection_value, values[best])
                   /\ FLe(values[indices[n]], reflection_value)
                THEN replace(reflection, reflection_value, "reflection")
                ELSE IF FLt(reflection_value, values[indices[n]])
                THEN IF FLt(expansion_value, reflection_value)
                     THEN replace(expansion, expansion_value, "expansion")
                     ELSE replace(reflection, reflection_value,
                                  "reflection_after_expansion")
                ELSE IF FLt(contraction_value, values[worst])
                THEN replace(contraction, contraction_value, "contraction")
                ELSE <<shrunk,
                       [v \in 1..(n + 1) |->
                           IF v = best THEN values[v] ELSE apply(f, shrunk[v])],
                       "shrink">>
        IN  CHOOSE pass \in
                {Pass(mv[1], mv[2], FAbs(FSub(mv[2][best], mv[2][worst])),
                      [step |-> mv[3], centroid |-> centroid,
                       reflection |-> reflection,
                       reflection_value |-> reflection_value,
                       expansion |-> IF mv[3] \in {"expansion",
                                                   "reflection_after_expansion"}
                                     THEN expansion ELSE <<>>]) : mv \in {moved}} :
                TRUE

(* f64::min: a NaN operand gives the other operand *)
FMin(a, b) == IF IsNaN(a) THEN b ELSE IF IsNaN(b) THEN a ELSE IF FLt(b, a) THEN b ELSE a

(* params.iter().fold(f64::INFINITY, |a, &b| a.min(b)) *)
RECURSIVE fold_min(_, _)
fold_min(acc, params) ==
    IF Len(params) = 0 THEN acc ELSE fold_min(FMin(acc, Head(params)), Tail(params))

(* The factor of the finite-difference step, 1e-6 in the source.  The      *)
(* model takes 1/4: the sixth power of 1e-6 that the second differences    *)
(* build up leaves the integers of the exact representation, and the       *)
(* central differences of the objectives of the model (polynomials of      *)
(* degree 2 in the coefficients) are the same for every non-zero step.     *)
StepFactor == <<1, 4>>

step(params) == FMul(StepFactor, fold_min(PInf, params))

calculate_gradient(f, params) ==
    LET h == step(params)
    IN  [i \in 1..Len(params) |->
            LET params1 == [params EXCEPT ![i] = FAdd(params[i], h)]
                params2 == [params EXCEPT ![i] = FSub(params[i], h)]
            IN  FDiv(FSub(apply(f, params1), apply(f, params2)), FMul(Num(2), h))]

calculate_hessian_matrix(f, params) ==
    LET h == step(params)
    IN  [i \in 1..Len(params) |->
            LET gradient1 == calculate_gradient(f, [params EXCEPT ![i] = FAdd(params[i], h)])
                gradient2 == calculate_gradient(f, [params EXCEPT ![i] = FSub(params[i], h)])
            IN  [j \in 1..Len(params) |->
                    FDiv(FSub(gradient1[j], gradient2[j]), FMul(Num(2), h))]]

(* the outcome of a fit: the Measures, or the panic with what raised it *)
Fitted(measures) == [kind |-> "Ok", measures |-> measures, message |-> ""]
FitPanic(message) == [kind |-> "Panic", measures |-> <<>>, message |-> message]

(* (n - result.len()) as f64: below zero the usize subtraction panics in a *)
(* build with overflow checks and wraps to about 1.8e19 in one without     *)
degrees_of_freedom(n, len, overflow_checks) ==
    IF n >= len THEN Num(n - len) ELSE IF overflow_checks THEN NaN ELSE Out

(* hessian_matrix mapped by y / 2.0 *)
halve(hessian_matrix) ==
    [i \in 1..Len(hessian_matrix) |->
        [j \in 1..Len(hessian_matrix[i]) |-> FDiv(hessian_matrix[i][j], Num(2))]]

halved_hessian(f, params) == halve(calculate_hessian_matrix(f, params))

(* the square roots of the diagonal of inverse_hessian * rss / dof and the *)
(* Measures of result zipped with them                                     *)
errors(inverse_hessian, rss, dof) ==
    [i \in 1..Len(inverse_hessian) |->
        FSqrt(FDiv(FMul(inverse_hessian[i][i], rss), dof))]

zipped(result, errs) ==
    Fitted([i \in 1..Min(Len(result), Len(errs)) |->
               new(<<result[i]>>, <<errs[i]>>, FALSE).measure])

(* curve_fit from the outcome of invert_matrix on: zeros of the size of    *)
(* the DATA when there is no inverse, then rss, dof, covariance            *)
covariance_of(inverted, f, n, result, overflow_checks) ==
    IF inverted.kind = "Panic" THEN FitPanic("unwrap")
    ELSE IF n < Len(result) /\ overflow_checks THEN FitPanic("overflow")
    ELSE zipped(result,
                errors(IF inverted.kind = "Some" THEN inverted.matrix
                       ELSE Repeat(Repeat(Zero, n), n),
                       apply(f, result),
                       degrees_of_freedom(n, Len(result), overflow_checks)))

(* curve_fit after the search: hessian, inverse of its half, covariance *)
covariance(f, n, result, overflow_checks) ==
    covariance_of(invert_matrix(halved_hessian(f, result)),
                  f, n, result, overflow_checks)

(* assert_eq!(x.len(), y.len(), ...) and, in wlinear_fit, of yerr *)
lengths_asserted(x, y) == Len(x) = Len(y)

(* linear_fit returning (intercept, slope) *)
linear_fit_intercept_first(x, y) ==
    IF ~lengths_asserted(x, y) THEN FitPanic("length")
    ELSE
    LET n == Num(Len(x))
        sum_x == FSum(x)
        sum_y == FSum(y)
        sum_xy == FSum([i \in 1..Len(x) |-> FMul(x[i], y[i])])
        sum_x2 == FSum([i \in 1..Len(x) |-> FPowf(x[i], Num(2))])
        den == FSub(FMul(n, sum_x2), FPowf(sum_x, Num(2)))
        slope == FDiv(FSub(FMul(n, sum_xy), FMul(sum_x, sum_y)), den)
        n0 == FDiv(FSub(FMul(sum_y, sum_x2), FMul(sum_x, sum_xy)), den)
    IN  Fitted(<<new(<<n0>>, <<Zero>>, FALSE).measure,
                 new(<<slope>>, <<Zero>>, FALSE).measure>>)

linear_fit(x, y) ==
    IF ~lengths_asserted(x, y) THEN FitPanic("length")
    ELSE
    LET n == Num(Len(x))
        sum_x == FSum(x)
        sum_y == FSum(y)
        sum_xy == FSum([i \in 1..Len(x) |-> FMul(x[i], y[i])])
        sum_x2 == FSum([i \in 1..Len(x) |-> FPowf(x[i], Num(2))])
        den == FSub(FMul(n, sum_x2), FPowf(sum_x, Num(2)))
        slope == FDiv(FSub(FMul(n, sum_xy), FMul(sum_x, sum_y)), den)
        n0 == FDiv(FSub(FMul(sum_y, sum_x2), FMul(sum_x, sum_xy)), den)
        sigma_y == FSqrt(FSum([i \in 1..Len(x) |->
                       FDiv(FPowi(FSub(y[i], FAdd(FMul(slope, x[i]), n0)), 2),
                            FSub(n, Num(2)))]))
        deni == FSub(FMul(n, sum_x2), FPowi(sum_x, 2))
        sigma_slope == FMul(sigma_y, FSqrt(FDiv(n, deni)))
        sigma_n0 == FMul(sigma_y, FSqrt(FDiv(sum_x2, deni)))
    IN  Fitted(<<new(<<slope>>, <<sigma_slope>>, FALSE).measure,
                 new(<<n0>>, <<sigma_n0>>, FALSE).measure>>)

(* wlinear_fit with the weights left out of sum_xw *)
wlinear_fit_plain_sum_x(x, y, yerr) ==
    IF ~lengths_asserted(x, y) \/ ~lengths_asserted(x, yerr) THEN FitPanic("length")
    ELSE
    LET w == [i \in 1..Len(yerr) |-> FDiv(One, FPowi(yerr[i], 2))]
        sum_w == FSum(w)
        sum_xw == FSum(x)
        sum_x2w == FSum([i \in 1..Len(x) |-> FMul(FPowi(x[i], 2), w[i])])
        sum_yw == FSum([i \in 1..Len(y) |-> FMul(y[i], w[i])])
        sum_xyw == FSum([i \in 1..Len(x) |-> FMul(FMul(x[i], y[i]), w[i])])
        den == FSub(FMul(sum_w, sum_x2w), FPowi(sum_xw, 2))
        wslope == FDiv(FSub(FMul(sum_w, sum_xyw), FMul(sum_xw, sum_yw)), den)
        wn0 == FDiv(FSub(FMul(sum_yw, sum_x2w), FMul(sum_xw, sum_xyw)), den)
    IN  Fitted(<<new(<<wslope>>, <<Zero>>, FALSE).measure,
                 new(<<wn0>>, <<Zero>>, FALSE).measure>>)

wlinear_fit(x, y, yerr) ==
    IF ~lengths_asserted(x, y) \/ ~lengths_asserted(x, yerr) THEN FitPanic("length")
    ELSE
    LET w == [i \in 1..Len(yerr) |-> FDiv(One, FPowi(yerr[i], 2))]
        sum_w == FSum(w)
        sum_xw == FSum([i \in 1..Len(x) |-> FMul(x[i], w[i])])
        sum_x2w == FSum([i \in 1..Len(x) |-> FMul(FPowi(x[i], 2), w[i])])
        sum_yw == FSum([i \in 1..Len(y) |-> FMul(y[i], w[i])])
        sum_xyw == FSum([i \in 1..Len(x) |-> FMul(FMul(x[i], y[i]), w[i])])
        den == FSub(FMul(sum_w, sum_x2w), FPowi(sum_xw, 2))
        wslope == FDiv(FSub(FMul(sum_w, sum_xyw), FMul(sum_xw, sum_yw)), den)
        wn0 == FDiv(FSub(FMul(sum_yw, sum_x2w), FMul(sum_xw, sum_xyw)), den)
        wsigma_slope == FSqrt(FDiv(sum_w, den))
        wsigma_n0 == FSqrt(FDiv(sum_x2w, den))
    IN  Fitted(<<new(<<wslope>>, <<wsigma_slope>>, FALSE).measure,
                 new(<<wn0>>, <<wsigma_n0>>, FALSE).measure>>)

(* repeat(()).take(max), or repeat(()) without a cap: whether the iterator *)
(* yields once more after `taken` items                                    *)
has_next_inclusive(max_iterations, taken) ==
    IsSome(max_iterations) => taken <= max_iterations[1]

has_next(max_iterations, taken) ==
    IsSome(max_iterations) => taken < max_iterations[1]

(* fit(&self) of CurveFit and LinearFit: the builder after a call that     *)
(* returned `fitted`; the mutant keeps the fitted values as initial point  *)
borrowed_warm_start(self, fitted) ==
    [self EXCEPT !.initial_point =
        [i \in 1..Len(fitted.measures) |-> fitted.measures[i].value[1]]]

borrowed(self, fitted) == self

-----------------------------------------------------------------------------
(* The fits applied to bounded builders.  call is the builder (CurveFit or *)
(* LinearFit) after its configuration, with the profile of the build, m    *)
(* the locals of the running search                                        *)
(* (simplex, values, passes taken, how the loop ended, the locals of the   *)
(* last pass), ret the results of                                          *)
(* the fit calls made so far.                                              *)

MaxIterations == 2
MaxPasses == 3

FitModels == {"polynomial", "proportional"}

FitData ==
    {<<<<>>, <<>>>>,
     <<<<Zero>>, <<One>>>>,
     <<<<Zero, One>>, <<One, <<3, 1>>>>>>,
     <<<<Zero, One, <<2, 1>>>>, <<Zero, One, <<4, 1>>>>>>,
     <<<<Zero, One>>, <<One>>>>}

SuppliedYErrors == {<<One, <<2, 1>>>>}

InitialPoints == {<<>>, <<Zero>>, <<<<2, 1>>>>, <<Zero, Zero>>, <<<<2, 1>>, One>>}

Tolerances == {<<1, 100>>, One}

Scales == {Half}

Caps == {<<>>} \cup {<<k>> : k \in 0..MaxIterations}

(* the build runs with or without overflow checks; the two differ only    *)
(* where there can be fewer data points than coefficients                  *)
Profiles(x, points) ==
    IF \E p \in points : Len(x) < Len(p) THEN BOOLEAN ELSE {TRUE}

(* CurveFit::new(model, x, y) followed by the configuration methods *)
CurveFits ==
    UNION {[fn : {"CurveFit"}, model : FitModels,
            x_values : {d[1]}, y_values : {d[2]},
            yerr : {Repeat(One, Len(d[1]))} \cup SuppliedYErrors,
            initial_point : InitialPoints, tolerance : Tolerances,
            max_iterations : Caps, initial_simplex_scale : Scales,
            overflow_checks : Profiles(d[1], InitialPoints)] : d \in FitData}

(* the data of the linear fits: those of the curve fits and some of three *)
(* and four points, one of them with a single abscissa                     *)
LinearData ==
    FitData \cup
    {<<<<Zero, One, <<2, 1>>>>, <<One, <<3, 1>>, <<4, 1>>>>>>,
     <<<<<<-1, 1>>, Zero, <<2, 1>>>>, <<<<2, 1>>, Half, Zero>>>>,
     <<<<One, One, One>>, <<Zero, One, <<2, 1>>>>>>,
     <<<<Zero, One, <<2, 1>>, <<3, 1>>>>, <<One, One, <<2, 1>>, <<-1, 1>>>>>>}

(* y-errors that are the same for every point *)
UniformYErrors(x) == {Repeat(e, Len(x)) : e \in {<<2, 1>>, <<-1, 2>>}}

(* LinearFit::new(x, y), with or without y_error(yerr) *)
LinearFits ==
    UNION {[fn : {"LinearFit"}, model : {""},
            x_values : {d[1]}, y_values : {d[2]},
            yerr : {<<>>} \cup {<<e>> : e \in SuppliedYErrors \cup UniformYErrors(d[1])},
            initial_point : {<<>>}, tolerance : {Zero},
            max_iterations : {<<>>}, initial_simplex_scale : {Zero},
            overflow_checks : {TRUE}] : d \in LinearData}

NoSearch ==
    [simplex |-> <<>>, values |-> <<>>, iterations |-> 0, stop |-> "",
     last |-> NoLocals]

InitFit ==
    /\ pc = "call"
    /\ call \in CurveFits \cup LinearFits
    /\ ret = <<>>
    /\ m = NoSearch

(* CurveFit::fit: the assertion of curve_fit, then the start of nelder_mead *)
FitCurve ==
    /\ pc = "call" /\ call.fn = "CurveFit"
    /\ IF lengths_asserted(call.x_values, call.y_values)
       THEN \E simplex \in {generate_initial_simplex(call.initial_point,
                                                       call.initial_simplex_scale)} :
                /\ m' = [simplex |-> simplex,
                         values |-> [v \in 1..Len(simplex) |->
                                        apply(objective_function(call), simplex[v])],
                         iterations |-> 0, stop |-> "", last |-> NoLocals]
                /\ pc' = "search"
                /\ UNCHANGED <<call, ret>>
       ELSE /\ ret' = Append(ret, FitPanic("length"))
            /\ pc' = "panicked"
            /\ UNCHANGED <<call, m>>

(* one pass of the loop of nelder_mead, with its convergence test *)
NelderMeadPass ==
    /\ pc = "search"
    /\ has_next(call.max_iterations, m.iterations)
    /\ m.iterations < MaxPasses
    /\ \E r \in {nelder_mead_pass(objective_function(call), m.simplex, m.values)} :
           IF r.kind # "Ok"
           THEN /\ ret' = Append(ret, FitPanic(r.kind))
                /\ pc' = "panicked"
                /\ UNCHANGED <<call, m>>
           ELSE /\ m' = [simplex |-> r.simplex, values |-> r.values,
                         iterations |-> m.iterations + 1,
                         stop |-> IF FLt(r.max_diff, call.tolerance)
                                  THEN "tolerance" ELSE "",
                         last |-> r.locals]
                /\ pc' = IF FLt(r.max_diff, call.tolerance) THEN "found" ELSE "search"
                /\ UNCHANGED <<call, ret>>

(* the iterator of the loop is exhausted *)
NelderMeadExhausted ==
    /\ pc = "search"
    /\ ~has_next(call.max_iterations, m.iterations)
    /\ m' = [m EXCEPT !.stop = "cap"]
    /\ pc' = "found"
    /\ UNCHANGED <<call, ret>>

(* nelder_mead returns simplex[0]; curve_fit estimates the errors *)
Covariance ==
    /\ pc = "found"
    /\ \E fitted \in {covariance(objective_function(call), Len(call.x_values),
                                 m.simplex[1], call.overflow_checks)} :
           /\ ret' = Append(ret, fitted)
           /\ pc' = IF fitted.kind = "Ok" THEN "done" ELSE "panicked"
           /\ call' = borrowed(call, fitted)
    /\ UNCHANGED m

(* LinearFit::fit *)
FitLinear ==
    /\ pc = "call" /\ call.fn = "LinearFit"
    /\ \E fitted \in {IF IsSome(call.yerr)
                        THEN wlinear_fit(call.x_values, call.y_values, call.yerr[1])
                        ELSE linear_fit(call.x_values, call.y_values)} :
           /\ ret' = Append(ret, fitted)
           /\ pc' = IF fitted.kind = "Ok" THEN "done" ELSE "panicked"
           /\ call' = borrowed(call, fitted)
    /\ UNCHANGED m

(* a second fit call on the same builder *)
FitAgain ==
    /\ pc = "done" /\ Len(ret) = 1
    /\ pc' = "call"
    /\ m' = NoSearch
    /\ UNCHANGED <<call, ret>>

NextFit ==
    \/ FitCurve \/ NelderMeadPass \/ NelderMeadExhausted \/ Covariance
    \/ FitLinear \/ FitAgain

SpecFit == InitFit /\ [][NextFit]_vars

-----------------------------------------------------------------------------
(* Properties of the fits *)

FitEnded == pc \in {"done", "panicked"} /\ Len(ret) = 1

LengthAsserted == pc = "panicked" /\ ret = <<FitPanic("length")>>

LengthMismatch ==
    \/ Len(call.x_values) # Len(call.y_values)
    \/ call.fn = "CurveFit" /\ Len(call.yerr) # Len(call.x_values)
    \/ call.fn = "LinearFit" /\ IsSome(call.yerr)
          /\ Len(call.yerr[1]) # Len(call.x_values)

(* C12: a fit whose x, y and supplied y-error vectors are not all of the   *)
(* same length ends in the length assertion and returns nothing: the call  *)
(* gets no further than the assertion.                                     *)
C12_LengthMismatchPanics ==
    LengthMismatch => (pc = "call" /\ ret = <<>>) \/ LengthAsserted

SearchEnded == pc = "found"

(* C13: the point the search returns has an objective value less than or   *)
(* equal to that of every vertex of the final simplex.                     *)
C13_ReturnsBestVertex ==
    SearchEnded =>
        \A v \in 1..Len(m.simplex) :
            FLe(apply(objective_function(call), m.simplex[1]),
                apply(objective_function(call), m.simplex[v]))

Lowest(values) ==
    CHOOSE x \in {values[i] : i \in 1..Len(values)} :
        \A i \in 1..Len(values) : FLe(x, values[i])

Highest(values) ==
    CHOOSE x \in {values[i] : i \in 1..Len(values)} :
        \A i \in 1..Len(values) : FLe(values[i], x)

(* |lowest - highest| over the vertices of the simplex as it stands *)
Spread(values) == FAbs(FSub(Lowest(values), Highest(values)))

(* C14: at the end of a pass the loop stops exactly when the spread of the *)
(* objective values of the simplex is below the tolerance or the cap is    *)
(* reached; without a cap it stops through the tolerance test only.        *)
C14_StopsOnSpread ==
    /\ (pc = "search" /\ m.iterations > 0
           /\ has_next(call.max_iterations, m.iterations))
          => ~FLt(Spread(m.values), call.tolerance)
    /\ (SearchEnded /\ m.stop = "tolerance"
           /\ has_next(call.max_iterations, m.iterations))
          => FLt(Spread(m.values), call.tolerance)
    /\ (SearchEnded /\ m.stop = "cap")
          => IsSome(call.max_iterations) /\ m.iterations = call.max_iterations[1]

Capped == call.fn = "CurveFit" /\ IsSome(call.max_iterations)

(* C15: with max_iterations = k the search takes at most k passes and then *)
(* ends, whatever the objective and the tolerance; with k = 0 it takes no  *)
(* pass and returns the initial point.                                     *)
C15_CapBoundsPasses ==
    Capped =>
        /\ m.iterations <= call.max_iterations[1]
        /\ (pc = "search" /\ m.iterations = call.max_iterations[1])
              => (~ENABLED NelderMeadPass /\ ENABLED NelderMeadExhausted)
        /\ (SearchEnded /\ call.max_iterations[1] = 0)
              => (m.iterations = 0 /\ m.simplex[1] = call.initial_point)

C15_Witness ==
    /\ Capped /\ SearchEnded
    /\ call.max_iterations = <<2>> /\ m.iterations = 2 /\ m.stop = "cap"

CurveFitEnded == FitEnded /\ call.fn = "CurveFit" /\ m.stop # ""

(* C16: when the halved Hessian has no inverse the fit returns one Measure *)
(* of length 1 per coefficient: the point of the search with error 0.      *)
C16_SingularGivesZeroErrors ==
    (CurveFitEnded
        /\ invert_matrix(halved_hessian(objective_function(call), m.simplex[1])).kind
               = "None")
    => /\ ret[1].kind = "Ok"
       /\ Len(ret[1].measures) = Len(call.initial_point)
       /\ \A i \in 1..Len(ret[1].measures) :
             /\ ret[1].measures[i].value = <<m.simplex[1][i]>>
             /\ ret[1].measures[i].error = <<Zero>>

(* C17: when a coefficient found by the search is exactly zero and the     *)
(* step of the finite differences is zero, the fit still returns its       *)
(* Measures (there are at least as many data points as coefficients).      *)
C17_ZeroStepStillReturns ==
    (CurveFitEnded
        /\ Len(call.x_values) >= Len(m.simplex[1])
        /\ (\E i \in 1..Len(m.simplex[1]) : m.simplex[1][i] = Zero)
        /\ step(m.simplex[1]) = Zero)
    => ret[1].kind = "Ok"

LinearFitEnded == pc = "done" /\ Len(ret) = 1 /\ call.fn = "LinearFit"

(* the sums of the least squares formulas *)
SumX == FSum(call.x_values)
SumY == FSum(call.y_values)
SumXY == FSum([i \in 1..Len(call.x_values) |-> FMul(call.x_values[i], call.y_values[i])])
SumX2 == FSum([i \in 1..Len(call.x_values) |-> FMul(call.x_values[i], call.x_values[i])])
Denominator ==
    FSub(FMul(Num(Len(call.x_values)), SumX2), FMul(SumX, SumX))

(* C21: without y-errors, for n >= 3 points with n*Sum(x^2) - (Sum x)^2    *)
(* non-zero, fit returns the slope and then the intercept as Measures of   *)
(* length 1 holding the exact values of the least squares formulas.        *)
C21_LeastSquaresFormulas ==
    (/\ LinearFitEnded /\ ~IsSome(call.yerr)
     /\ Len(call.x_values) >= 3 /\ Denominator # Zero)
    => /\ ret[1].kind = "Ok" /\ Len(ret[1].measures) = 2
       /\ \A k \in 1..2 : /\ Len(ret[1].measures[k].value) = 1
                           /\ Len(ret[1].measures[k].error) = 1
       /\ ret[1].measures[1].value[1] =
            FDiv(FSub(FMul(Num(Len(call.x_values)), SumXY), FMul(SumX, SumY)),
                 Denominator)
       /\ ret[1].measures[2].value[1] =
            FDiv(FSub(FMul(SumY, SumX2), FMul(SumX, SumXY)), Denominator)

(* three points, slope 3/2 and intercept 7/6, which an approximation would *)
(* have rounded                                                            *)
C21_Witness ==
    /\ LinearFitEnded /\ ~IsSome(call.yerr)
    /\ Len(call.x_values) = 3 /\ Denominator # Zero
    /\ ret[1].measures[1].value = <<<<3, 2>>>>
    /\ ret[1].measures[2].value = <<<<7, 6>>>>

(* y-errors that are all the same non-zero number *)
Uniform(yerr) ==
    \A i \in 1..Len(yerr) :
        IsFinite(yerr[i]) /\ yerr[i] # Zero /\ yerr[i] = yerr[1]

WeightedUniformEnded ==
    /\ LinearFitEnded /\ IsSome(call.yerr)
    /\ Len(call.yerr[1]) = Len(call.x_values) /\ Uniform(call.yerr[1])

(* C29: with y-errors that are all the same non-zero number the weighted   *)
(* fit returns the slope value and the intercept value of the unweighted   *)
(* fit of the same x and y.                                                *)
C29_UniformWeightsSameLine ==
    WeightedUniformEnded
    => \A k \in 1..2 :
           ret[1].measures[k].value =
               linear_fit(call.x_values, call.y_values).measures[k].value

C29_Witness ==
    /\ WeightedUniformEnded
    /\ call.yerr[1] = <<<<-1, 2>>, <<-1, 2>>, <<-1, 2>>>>
    /\ ret[1].measures[1].value = <<<<-17, 28>>>>

(* a step of the search that is one pass of the loop *)
PassTaken == pc = "search" /\ m'.iterations = m.iterations + 1

ExpansionAttempted(locals) ==
    locals.step \in {"expansion", "reflection_after_expansion"}

(* C22: a pass evaluates the expansion point only when the reflection      *)
(* value is lower than the value of the best vertex, and then replaces the *)
(* worst vertex by the one of expansion and reflection of lower value.     *)
C22_ExpansionOnlyBelowBest ==
    [][(PassTaken /\ ExpansionAttempted(m'.last))
       => /\ FLt(m'.last.reflection_value, Lowest(m.values))
          /\ \E v \in 1..Len(m.simplex) :
                /\ m.values[v] = Highest(m.values)
                /\ \A u \in 1..Len(m.simplex) \ {v} :
                       m'.simplex[u] = m.simplex[u] /\ m'.values[u] = m.values[u]
                /\ \/ /\ m'.simplex[v] = m'.last.expansion
                      /\ FLe(m'.values[v], m'.last.reflection_value)
                   \/ /\ m'.simplex[v] = m'.last.reflection
                      /\ m'.values[v] = m'.last.reflection_value
                      /\ FLe(m'.values[v],
                             apply(objective_function(call), m'.last.expansion))]_vars

(* C23: the expansion point of a pass lies on the line from the centroid   *)
(* through the reflection: expansion[i] = centroid[i] + 2 * (reflection[i] *)
(* - centroid[i]) for every coordinate i.                                  *)
C23_ExpansionOnTheLine ==
    (pc \in {"search", "found"} /\ ExpansionAttempted(m.last))
    => \A i \in 1..Len(m.last.expansion) :
           m.last.expansion[i] =
               FAdd(m.last.centroid[i],
                    FMul(Num(2), FSub(m.last.reflection[i], m.last.centroid[i])))

(* C28: no pass of the search raises the lowest objective value held by a  *)
(* vertex of the simplex.                                                  *)
C28_LowestNeverIncreases ==
    [][PassTaken => FLe(Lowest(m'.values), Lowest(m.values))]_vars

(* a second or third pass of a fit of two coefficients was an expansion *)
C28_Witness ==
    /\ pc \in {"search", "found"} /\ m.iterations >= 2
    /\ Len(call.initial_point) = 2
    /\ m.last.step = "expansion"

(* C30: at the start of every pass and at return the simplex has n + 1     *)
(* vertices of n coordinates and values[i] is the objective at simplex[i]. *)
C30_ValuesFollowSimplex ==
    pc \in {"search", "found"}
    => /\ Len(m.simplex) = Len(call.initial_point) + 1
       /\ Len(m.values) = Len(m.simplex)
       /\ \A v \in 1..Len(m.simplex) :
              /\ Len(m.simplex[v]) = Len(call.initial_point)
              /\ m.values[v] = apply(objective_function(call), m.simplex[v])

(* a second or third pass of a fit of two coefficients was a contraction *)
C30_Witness ==
    /\ pc \in {"search", "found"} /\ m.iterations >= 2
    /\ Len(call.initial_point) = 2
    /\ m.last.step = "contraction"

(* the least absolute value of the parameters, +inf when there is none *)
RECURSIVE MinAbs(_)
MinAbs(params) ==
    IF Len(params) = 0 THEN PInf
    ELSE FMin(FAbs(Head(params)), MinAbs(Tail(params)))

(* C25: the finite-difference step of the gradient and of the Hessian is   *)
(* the step factor times the least absolute value of the parameters, so it *)
(* is never negative.                                                      *)
C25_StepFromAbsoluteValues ==
    CurveFitEnded
    => /\ step(m.simplex[1]) = FMul(StepFactor, MinAbs(m.simplex[1]))
       /\ FLe(Zero, step(m.simplex[1]))

====
